---- MODULE Spec2Model ----
(***************************************************************************)
(* Rate-refresh core of valutatrade_hub: the update coordinator            *)
(* (parser_service/updater.py), the file-backed rate cache and history     *)
(* (parser_service/storage.py, infra/database.py) and the periodic         *)
(* scheduler (parser_service/scheduler.py).                                *)
(*                                                                         *)
(* Conventions.  A Python string that the code takes apart (a source name, *)
(* a pair key) is a sequence: a source name is the sequence of its         *)
(* characters, a pair key "BTC_USD" is the sequence of its "_"-separated   *)
(* parts <<"BTC", "USD">>.  A timestamp is <<t>> for clock reading t, and  *)
(* Python's None is the empty sequence where a timestamp is expected.      *)
(* A Python dict whose iteration order the code relies on is a record      *)
(* [order, at]: the keys in insertion order and the mapping.               *)
(***************************************************************************)
EXTENDS Integers, Sequences, FiniteSets, TLC

\* ---------------------------------------------------------------- bounds
MaxClock == 1      \* clock readings are 0..MaxClock
MaxRate == 2       \* rates returned by a client are 1..MaxRate
MaxCycles == 1     \* update cycles one updater runs
MaxSaves == 1      \* save_rates_cache calls one storage user makes
MaxHistory == 3    \* records the history file grows to
MaxThreads == 2    \* loop threads one scheduler starts
MaxRuns == 2       \* run_update calls one scheduler makes
MaxOver == 1       \* interval values assigned reach MinInterval + MaxOver

VARIABLES
    clock,         \* the latest reading of datetime.now() / utcnow()
    ratesFile,     \* content of rates.json
    historyFile,   \* content of exchange_rates.json
    \* --- one RatesUpdater.run_update call (updater.py:38-116)
    upc,           \* position of the call
    usources,      \* its sources argument
    idx,           \* index of the client the for loop is at
    all_rates,     \* the merged map (ordered dict)
    results,       \* the results dict being built
    uexc,          \* the exception that escaped the call, "" for none
    fetched,       \* history variable: the fetch_rates calls made and how they ended
    writes,        \* history variable: _write_json calls made by this cycle
    atStart,       \* history variable: the two files when the cycle began
    cycles,        \* cycles begun so far
    \* --- one RatesStorage.save_rates_cache call with its _write_json
    \*     (storage.py:54-68, 80-103) and a concurrent reader
    tmpFile,       \* content of the temporary file of mkstemp
    fpc,           \* position of the call
    frates,        \* its rates argument
    fdata,         \* the document handed to _write_json
    fexc,          \* the exception that escaped the call, "" for none
    fbefore,       \* history variable: rates.json when the call began
    lastRead,      \* history variable: the latest get_rates_cache of the reader:
                   \* its result, whether the file was missing or corrupt, and
                   \* the number of the save whose _write_json was under way
                   \* (0 when none was)
    saves,         \* save_rates_cache calls begun so far
    \* --- add_history_record calls (storage.py:143-156)
    hcall,         \* history variable: the latest call: its record, the file
                   \* before it, the _write_json calls it made
    \* --- two callers of run_update on one storage (scheduler.py:103, 117)
    cycle,         \* per caller: position in the cycle and save_rates_cache's
                   \* locals rates, current_time, cache
    \* --- RatesScheduler (scheduler.py:34-36)
    running,       \* self._running
    stop_event,    \* self._stop_event is set
    thread,        \* self._thread: the number of the latest thread, 0 for None
    loops,         \* per thread started: position in _run_loop
    mpc,           \* position of the thread that calls start() and stop()
    interval,      \* self._interval
    assigned,      \* history variable: the value last assigned to interval,
                   \* None before the first assignment
    on_update,     \* self._on_update is set
    ran,           \* history variable: run_update calls of this scheduler
                   \* that returned a result, numbered 1..ran
    delivered,     \* history variable: the results handed to on_update
    inflightAtStop, \* history variable: the threads inside _do_update when
                   \* the latest stop() cleared _running
    \* --- RatesService.get_rate calls (usecases.py:284-374)
    grcall,        \* history variable: the latest call: its arguments, the
                   \* clock reading, the TTL setting, its outcome and the
                   \* number of get_rates calls it made
    \* --- DatabaseManager.save_rates / get_rates on the text of a file
    \*     (database.py:65-90, 183-216; storage.py:46-68)
    rtrip,         \* the document the caller hands to save_rates, whether
                   \* the call was made and how it ended, the text in the
                   \* file, and what get_rates returned since
    \* --- one fetch_rates call of a source client (api_clients.py:60-209)
    fcall,         \* history variable: the call: its client, the configuration,
                   \* what requests.get did, and how the call ended
    \* --- the update-rates command (cli/interface.py:459-494)
    console,       \* what the command has printed after run_update, None before
    \* --- a Wallet and a sell (core/models.py:166-195; core/usecases.py:228-260)
    wallet         \* the Wallet object's _balance, the balance of the wallet in the
                   \* stored portfolio (None when it has no such wallet), and the latest
                   \* call: its kind, its amount and how it ended

uvars == <<upc, usources, idx, all_rates, results, uexc, fetched, writes, atStart,
           cycles>>
svars == <<ratesFile, historyFile>>
fvars == <<tmpFile, fpc, frates, fdata, fexc, fbefore, lastRead, saves>>
hvars == <<hcall>>
ovars == <<cycle>>
schvars == <<running, stop_event, thread, loops, mpc, interval, assigned, on_update,
             ran, delivered, inflightAtStop>>
gvars == <<grcall>>
rtvars == <<rtrip>>
fcvars == <<fcall>>
clivars == <<console>>
wvars == <<wallet>>
\* The scheduler's variables that only the calls named change.
svc == <<interval, assigned, on_update, ran, delivered>>

\* The variables a component's steps leave alone.
notUpdater == <<fvars, hvars, ovars, schvars, gvars, rtvars, fcvars, clivars, wvars>>
notWriter == <<uvars, hvars, ovars, schvars, gvars, rtvars, fcvars, clivars, wvars>>
notHistory == <<clock, ratesFile, uvars, fvars, ovars, schvars, gvars, rtvars, fcvars, clivars, wvars>>
notCallers == <<uvars, fvars, hvars, schvars, gvars, rtvars, fcvars, clivars, wvars>>
notScheduler == <<clock, svars, uvars, fvars, hvars, ovars, gvars, rtvars, fcvars, clivars, wvars>>
notResolver == <<svars, uvars, fvars, hvars, ovars, schvars, rtvars, fcvars, clivars, wvars>>
notRoundTrip == <<clock, svars, uvars, fvars, hvars, ovars, schvars, gvars, fcvars, clivars, wvars>>
notClients == <<clock, svars, uvars, fvars, hvars, ovars, schvars, gvars, rtvars, clivars, wvars>>
notCommand == <<clock, svars, uvars, fvars, hvars, ovars, schvars, gvars, rtvars, fcvars, wvars>>
notWallet == <<clock, svars, uvars, fvars, hvars, ovars, schvars, gvars, rtvars, fcvars, clivars>>

None == <<>>
Range(s) == {s[i] : i \in DOMAIN s}

\* ------------------------------------------------------------ Python dict
EmptyDict == [order |-> <<>>, at |-> <<>>]

\* Mutant: a key that is already present keeps its value.
DictUpdate_FirstWins(d, m) ==
    LET isNew(k) == k \notin DOMAIN d.at
    IN [order |-> d.order \o SelectSeq(m.order, isNew),
        at |-> [k \in DOMAIN d.at \cup DOMAIN m.at |->
                   IF k \in DOMAIN d.at THEN d.at[k] ELSE m.at[k]]]

\* dict.update: existing keys keep their position, new keys are appended.
DictUpdate(d, m) ==
    LET isNew(k) == k \notin DOMAIN d.at
    IN [order |-> d.order \o SelectSeq(m.order, isNew),
        at |-> [k \in DOMAIN d.at \cup DOMAIN m.at |->
                   IF k \in DOMAIN m.at THEN m.at[k] ELSE d.at[k]]]

DictLen(d) == Len(d.order)

\* ------------------------------------------------------------ pair keys
BTC_USD == <<"BTC", "USD">>
EUR_USD == <<"EUR", "USD">>
KeyOrder == <<BTC_USD, EUR_USD>>
PairKeys == Range(KeyOrder)
Rates == 1..MaxRate

\* The maps a client's fetch_rates can return: any subset of the pair keys,
\* in the provider's order, each with a rate.
RateMaps ==
    UNION {{[order |-> SelectSeq(KeyOrder, LAMBDA k : k \in S), at |-> f] :
              f \in [S -> Rates]} : S \in SUBSET PairKeys}

\* ------------------------------------------------------------ JSON files
\* Values json.load can return from the two files.
PyNone == [t |-> "None"]
PyList(items) == [t |-> "list", items |-> items]
PyDoc(pairs, last_refresh, source) ==
    [t |-> "dict", pairs |-> pairs, last_refresh |-> last_refresh, source |-> source]

\* json.dump writes the document to the file piece by piece; NChunks is the
\* number of pieces of a value's serialization.
NChunks(v) ==
    IF v.t = "list" THEN Len(v.items) + 2
    ELSE IF v.t = "dict" THEN Cardinality(DOMAIN v.pairs) + 2
    ELSE 1

\* What a path can hold: nothing, bytes that are not UTF-8, text that is not
\* JSON, or the first `upto` pieces of the serialization of `data`.
Missing == [kind |-> "missing"]
BadBytes == [kind |-> "badbytes"]
Garbage == [kind |-> "garbage"]
Text(data, upto) == [kind |-> "text", data |-> data, upto |-> upto]
JsonFile(data) == Text(data, NChunks(data))

Returned(v) == [raised |-> FALSE, val |-> v]
Raised(e) == [raised |-> TRUE, exc |-> e]

\* json.load on a file's content: a strict prefix of a serialization, the
\* empty text included, is a JSONDecodeError.
JsonLoad(file) ==
    IF file.kind = "badbytes" THEN Raised("UnicodeDecodeError")
    ELSE IF file.kind = "garbage" THEN Raised("JSONDecodeError")
    ELSE IF file.upto < NChunks(file.data) THEN Raised("JSONDecodeError")
    ELSE Returned(file.data)

\* RatesStorage._read_json / DatabaseManager._read_json
ReadJson(file) ==
    IF file.kind = "missing" THEN Returned(PyNone)
    ELSE LET r == JsonLoad(file)
         IN IF r.raised /\ r.exc = "JSONDecodeError" THEN Returned(PyNone) ELSE r

\* {"pairs": {}, "last_refresh": None}; the "source" key is absent, which
\* cache.get("source") reads as None.
EmptyDoc == PyDoc(<<>>, None, None)

\* RatesStorage.get_rates_cache / DatabaseManager.get_rates
GetRatesCache(file) ==
    LET r == ReadJson(file)
    IN IF r.raised THEN r
       ELSE IF r.val = PyNone THEN Returned(EmptyDoc)
       ELSE r

\* Mutant: the saved rates replace the cached pairs instead of joining them.
MergedCache_Replace(cache, rates, current_time, source) ==
    IF cache.t # "dict" THEN Raised("AttributeError")
    ELSE Returned(PyDoc(
            [k \in DOMAIN rates.at |->
                [rate |-> rates.at[k], updated_at |-> current_time,
                 source |-> source]],
            current_time, source))

\* The document save_rates_cache builds from the cache it read (lines 86-100);
\* cache.get fails on a value that is not a dict.
MergedCache(cache, rates, current_time, source) ==
    IF cache.t # "dict" THEN Raised("AttributeError")
    ELSE Returned(PyDoc(
            [k \in DOMAIN cache.pairs \cup DOMAIN rates.at |->
                IF k \in DOMAIN rates.at
                THEN [rate |-> rates.at[k], updated_at |-> current_time,
                      source |-> source]
                ELSE cache.pairs[k]],
            current_time, source))

\* RatesStorage.get_history / DatabaseManager.get_exchange_rates_history
GetHistory(file) ==
    LET r == ReadJson(file)
    IN IF r.raised THEN r
       ELSE IF r.val.t = "list" THEN Returned(r.val.items)
       ELSE Returned(<<>>)

\* Python truth value of record.get("id"): None and "" are false.
EmptyStr == <<"">>
Truthy(s) == s # None /\ s # EmptyStr

\* Mutant: the loop over the history compares the last record only.
IsDuplicate_LastOnly(history, record) ==
    /\ Truthy(record.id)
    /\ history # <<>>
    /\ history[Len(history)].id = record.id

\* The duplicate check of add_history_record (lines 149-153): TRUE when the
\* call returns without appending.
IsDuplicate(history, record) ==
    /\ Truthy(record.id)
    /\ \E i \in DOMAIN history : history[i].id = record.id

\* The record save_rates_to_history builds for one pair (lines 172-185).
HistoryRecord(pair, rate, timestamp, source, meta) ==
    LET base == [id |-> pair \o timestamp, from_currency |-> pair[1],
                 to_currency |-> pair[2], rate |-> rate,
                 timestamp |-> timestamp, source |-> source]
    IN IF meta # None THEN [k \in DOMAIN base \cup {"meta"} |->
                               IF k = "meta" THEN meta ELSE base[k]]
       ELSE base

\* --------------------------------------------------------- source names
UpperCase == <<"A","B","C","D","E","F","G","H","I","J","K","L","M",
               "N","O","P","Q","R","S","T","U","V","W","X","Y","Z">>
LowerCase == <<"a","b","c","d","e","f","g","h","i","j","k","l","m",
               "n","o","p","q","r","s","t","u","v","w","x","y","z">>

\* str.lower() on one character
LowerChar(c) ==
    IF \E i \in DOMAIN UpperCase : UpperCase[i] = c
    THEN LowerCase[CHOOSE i \in DOMAIN UpperCase : UpperCase[i] = c]
    ELSE c

\* name.lower().replace("-", "").replace(" ", "")  (updater.py:54, 58)
NormalizeName(name) ==
    SelectSeq([i \in DOMAIN name |-> LowerChar(name[i])],
              LAMBDA c : c # "-" /\ c # " ")

CoinGecko == <<"C","o","i","n","G","e","c","k","o">>
ExchangeRateAPI == <<"E","x","c","h","a","n","g","e","R","a","t","e","-","A","P","I">>
coingecko == <<"c","o","i","n","g","e","c","k","o">>
exchangerateapi == <<"e","x","c","h","a","n","g","e","r","a","t","e","a","p","i">>
Coin_Gecko == <<"C","o","i","n"," ","G","e","c","k","o">>
binance == <<"b","i","n","a","n","c","e">>

\* self._clients of a default RatesUpdater (updater.py:35), by source_name
Clients == <<CoinGecko, ExchangeRateAPI>>

\* The sources argument: absent (None) or a list of names.
NoSources == [given |-> FALSE, list |-> <<>>]
SourceList(l) == [given |-> TRUE, list |-> l]
SourceArgs ==
    {NoSources, SourceList(<<>>), SourceList(<<coingecko>>),
     SourceList(<<exchangerateapi>>), SourceList(<<binance, Coin_Gecko>>),
     SourceList(<<binance>>)}

\* source_name of each client, normalised (updater.py:54)
ClientKeys == [i \in DOMAIN Clients |-> NormalizeName(Clients[i])]

\* Mutant: the names are compared as they are written.
Selected_AsWritten(i, sources) ==
    IF sources.given /\ Len(sources.list) > 0
    THEN Clients[i] \in Range(sources.list)
    ELSE TRUE

\* updater.py:57-60: FALSE when the loop skips the client (continue)
Selected(i, sources) ==
    IF sources.given /\ Len(sources.list) > 0
    THEN ClientKeys[i] \in {NormalizeName(sources.list[j]) : j \in DOMAIN sources.list}
    ELSE TRUE

\* ------------------------------------------------------- fetch outcomes
\* What client.fetch_rates() does: returns a map, raises ApiRequestError, or
\* raises some other Exception.
FetchOutcomes ==
    {[kind |-> "ok", rates |-> m] : m \in RateMaps}
        \cup {[kind |-> "ApiRequestError", msg |-> "unavailable"],
              [kind |-> "Exception", msg |-> "boom"]}

\* str(e) (line 77) and f"Неожиданная ошибка: {str(e)}" (line 88)
ErrorMsg(o) ==
    IF o.kind = "ApiRequestError" THEN <<o.msg>> ELSE <<"Unexpected error: ", o.msg>>

\* results after the try/except of one client (updater.py:64-96)
AfterFetch(res, name, o) ==
    IF o.kind = "ok"
    THEN [res EXCEPT !.sources =
            [n \in DOMAIN res.sources \cup {name} |->
                IF n = name
                THEN [status |-> "OK", rates_count |-> DictLen(o.rates),
                      rates |-> o.rates.order]
                ELSE res.sources[n]]]
    ELSE [res EXCEPT
            !.sources =
                [n \in DOMAIN res.sources \cup {name} |->
                    IF n = name
                    THEN [status |-> "ERROR", error |-> ErrorMsg(o)]
                    ELSE res.sources[n]],
            !.errors = Append(res.errors, <<name>> \o ErrorMsg(o)),
            !.success = "False"]

\* Mutant: the `except Exception` clause is missing.
Caught_OnlyApiRequestError(o) == o.kind = "ApiRequestError"

\* Which outcomes of fetch_rates the two except clauses catch (lines 76, 87).
Caught(o) == o.kind \in {"ApiRequestError", "Exception"}

\* Mutant: the final reclassification to "partial" is missing.
FinalSuccess_NoPartial(res, rates) == res.success

\* results["success"] at return (updater.py:112-114)
FinalSuccess(res, rates) ==
    IF DictLen(rates) > 0 /\ Len(res.errors) > 0 THEN "partial" ELSE res.success

\* ------------------------------------------------- persisting one cycle
\* How a storage call ends: whether it raised and what, the file afterwards,
\* and the number of _write_json calls it made (a failed one included).
Done(file, n) == [raised |-> FALSE, exc |-> "", file |-> file, writes |-> n]
Failed(exc, file, n) == [raised |-> TRUE, exc |-> exc, file |-> file, writes |-> n]

\* RatesStorage.save_rates_cache(rates, source) run at clock reading `now`
\* against the file `file`; writeFails is whether _write_json raises.
SaveRatesCache(file, rates, now, source, writeFails) ==
    LET cache == GetRatesCache(file)
        merged == MergedCache(cache.val, rates, <<now>>, source)
    IN IF cache.raised THEN Failed(cache.exc, file, 0)
       ELSE IF merged.raised THEN Failed(merged.exc, file, 0)
       ELSE IF writeFails THEN Failed("OSError", file, 1)
       ELSE Done(JsonFile(merged.val), 1)

\* RatesStorage.add_history_record / DatabaseManager.add_exchange_rate_record
\* against the file `file`.
AddHistoryRecord(file, record, writeFails) ==
    LET history == GetHistory(file)
    IN IF history.raised THEN Failed(history.exc, file, 0)
       ELSE IF IsDuplicate(history.val, record) THEN Done(file, 0)
       ELSE IF writeFails THEN Failed("OSError", file, 1)
       ELSE Done(JsonFile(PyList(Append(history.val, record))), 1)

\* The for loop of save_rates_to_history from the i-th pair on (lines
\* 167-187); failAt is the index of the pair whose write fails, 0 for none.
RECURSIVE HistoryLoop(_, _, _, _, _, _, _, _)
HistoryLoop(file, rates, i, timestamp, source, meta, failAt, n) ==
    IF i > Len(rates.order) THEN Done(file, n)
    ELSE LET pair == rates.order[i]
         IN IF Len(pair) # 2
            THEN HistoryLoop(file, rates, i + 1, timestamp, source, meta, failAt, n)
            ELSE LET r == AddHistoryRecord(
                              file,
                              HistoryRecord(pair, rates.at[pair], timestamp, source, meta),
                              failAt = i)
                 IN IF r.raised
                    THEN Failed(r.exc, r.file, n + r.writes)
                    ELSE HistoryLoop(r.file, rates, i + 1, timestamp, source, meta,
                                     failAt, n + r.writes)

\* RatesStorage.save_rates_to_history(rates, source, meta) at clock reading now
SaveRatesToHistory(file, rates, now, source, meta, failAt) ==
    HistoryLoop(file, rates, 1, <<now>>, source, meta, failAt, 0)

\* ------------------------------------------------ RatesUpdater.run_update
\* The results dict (lines 43-49).  Its started_at, completed_at and
\* duration_ms entries only report the call's wall-clock times and are left
\* out, as is the logging.
NewResults ==
    [success |-> "True", sources |-> <<>>, total_rates |-> 0, errors |-> <<>>]

\* Mutant: the `if all_rates:` test before persisting is missing.
AfterLoopPc_AlwaysSave(i, rates) ==
    IF i <= Len(Clients) THEN "loop" ELSE "save_cache"

\* Where the call goes once the for loop is at index i.
AfterLoopPc(i, rates) ==
    IF i <= Len(Clients) THEN "loop"
    ELSE IF DictLen(rates) > 0 THEN "save_cache" ELSE "finalize"

\* lines 40-51
Begin(sources) ==
    /\ upc \in {"idle", "returned", "raised"}
    /\ cycles < MaxCycles
    /\ cycles' = cycles + 1
    /\ usources' = sources
    /\ idx' = 1
    /\ all_rates' = EmptyDict
    /\ results' = NewResults
    /\ uexc' = ""
    /\ fetched' = <<>>
    /\ writes' = 0
    /\ atStart' = <<ratesFile, historyFile>>
    /\ upc' = AfterLoopPc(1, EmptyDict)
    /\ UNCHANGED <<clock, svars, notUpdater>>

\* lines 57-60: the client is filtered out
Skip ==
    /\ upc = "loop"
    /\ ~Selected(idx, usources)
    /\ idx' = idx + 1
    /\ upc' = AfterLoopPc(idx + 1, all_rates)
    /\ UNCHANGED <<clock, svars, notUpdater, usources, all_rates, results, uexc, fetched,
                   writes, atStart, cycles>>

\* The keys of all_rates to which update(m) gives another rate (line 66).
Replaced(d, m) == {k \in DOMAIN d.at \cap DOMAIN m.at : d.at[k] # m.at[k]}

\* lines 62-96: one selected client is asked and its outcome recorded
Fetch(o) ==
    /\ upc = "loop"
    /\ Selected(idx, usources)
    /\ fetched' = Append(fetched,
                         [client |-> idx, kind |-> o.kind,
                          keys |-> IF o.kind = "ok" THEN DOMAIN o.rates.at ELSE {},
                          replaces |-> o.kind = "ok" /\ Replaced(all_rates, o.rates) # {}])
    /\ IF o.kind = "ok" \/ Caught(o)
       THEN /\ all_rates' = IF o.kind = "ok" THEN DictUpdate(all_rates, o.rates)
                            ELSE all_rates
            /\ results' = AfterFetch(results, Clients[idx], o)
            /\ idx' = idx + 1
            /\ upc' = AfterLoopPc(idx + 1, all_rates')
            /\ UNCHANGED uexc
       ELSE /\ upc' = "raised"
            /\ uexc' = o.kind
            /\ UNCHANGED <<all_rates, results, idx>>
    /\ UNCHANGED <<clock, svars, notUpdater, usources, writes, atStart, cycles>>

\* line 100
SaveCache(now, writeFails) ==
    /\ upc = "save_cache"
    /\ clock' = now
    /\ LET r == SaveRatesCache(ratesFile, all_rates, now, "ParserService", writeFails)
       IN /\ ratesFile' = r.file
          /\ writes' = writes + r.writes
          /\ upc' = IF r.raised THEN "raised" ELSE "save_history"
          /\ uexc' = r.exc
    /\ UNCHANGED <<historyFile, notUpdater, usources, idx, all_rates, results, fetched,
                   atStart, cycles>>

\* lines 101-103
SaveHistory(now, failAt) ==
    /\ upc = "save_history"
    /\ clock' = now
    /\ LET r == SaveRatesToHistory(historyFile, all_rates, now, "ParserService",
                                   None, failAt)
       IN /\ failAt # 0 => r.raised
          /\ historyFile' = r.file
          /\ writes' = writes + r.writes
          /\ upc' = IF r.raised THEN "raised" ELSE "finalize"
          /\ uexc' = r.exc
          /\ results' = IF r.raised THEN results
                        ELSE [results EXCEPT !.total_rates = DictLen(all_rates)]
    /\ UNCHANGED <<ratesFile, notUpdater, usources, idx, all_rates, fetched, atStart,
                   cycles>>

\* lines 108-116
Finalize ==
    /\ upc = "finalize"
    /\ results' = [results EXCEPT !.success = FinalSuccess(results, all_rates)]
    /\ upc' = "returned"
    /\ UNCHANGED <<clock, svars, notUpdater, usources, idx, all_rates, uexc, fetched,
                   writes, atStart, cycles>>

\* What datetime.now() / utcnow() can return: the clock does not run backwards.
Readings == clock..MaxClock

vars == <<clock, svars, uvars, fvars, hvars, ovars, schvars, gvars, rtvars, fcvars, clivars, wvars>>

\* The save_rates_cache caller and the reader before their first step.
NoRead == [res |-> Returned(EmptyDoc), corrupt |-> FALSE, during |-> 0]
InitWriter ==
    /\ tmpFile = Missing
    /\ fpc = "idle"
    /\ frates = EmptyDict
    /\ fdata = EmptyDoc
    /\ fexc = ""
    /\ fbefore = Missing
    /\ lastRead = NoRead
    /\ saves = 0

\* The two files as _ensure_files creates them (storage.py:33-44), and as an
\* earlier run that saved BTC_USD = 1 at clock reading 0 left them.
FreshStore == <<JsonFile(EmptyDoc), JsonFile(PyList(<<>>))>>
UsedStore ==
    LET rates == [order |-> <<BTC_USD>>, at |-> (BTC_USD :> 1)]
    IN <<SaveRatesCache(FreshStore[1], rates, 0, "ParserService", FALSE).file,
         SaveRatesToHistory(FreshStore[2], rates, 0, "ParserService", None, 0).file>>

\* A RatesUpdater before its first run_update.
InitUpdater ==
    /\ upc = "idle"
    /\ usources = NoSources
    /\ idx = 1
    /\ all_rates = EmptyDict
    /\ results = NewResults
    /\ uexc = ""
    /\ fetched = <<>>
    /\ writes = 0
    /\ atStart = <<ratesFile, historyFile>>
    /\ cycles = 0

\* No add_history_record call made yet.
InitHistoryCalls == hcall = [made |-> FALSE]

\* The two threads that call RatesUpdater.run_update on one scheduler: the
\* loop thread through _do_update (line 103) and the caller of trigger_update
\* (line 117).
Callers == {"_do_update", "trigger_update"}

\* A caller outside run_update.
Idle(n) == [pc |-> "idle", rates |-> EmptyDict, current_time |-> None,
            cache |-> PyNone, n |-> n]
InitCallers == cycle = [c \in Callers |-> Idle(0)]

\* No get_rate call made yet.
InitResolver == grcall = [made |-> FALSE]

\* The caller of save_rates with the document it is about to pass (None: no
\* caller), and no file yet.
BeforeSave(rates) == [rates |-> rates, pc |-> "idle", raised |-> "", file |-> None,
                      read |-> None]
InitRoundTrip == rtrip = BeforeSave(None)

\* ------------------------------------------------------- Python floats
\* A float: a whole number, an infinity (v is its sign) or nan; NotNumber is
\* a value that is neither int nor float.
Fin(n) == [k |-> "fin", v |-> n]
PosInf == [k |-> "inf", v |-> 1]
NegInf == [k |-> "inf", v |-> -1]
NaNF == [k |-> "nan", v |-> 0]
NotNumber == [k |-> "str", v |-> 0]

\* a < b and a <= b: false when either is nan
FLess(a, b) ==
    CASE a.k = "nan" \/ b.k = "nan" -> FALSE
      [] a.k = "inf" -> a.v < 0 /\ b # NegInf
      [] b.k = "inf" -> b.v > 0
      [] OTHER -> a.v < b.v
FLessEq(a, b) == FLess(a, b) \/ (a.k # "nan" /\ a = b)

\* a + b and a - b
FAdd(a, b) ==
    CASE a.k = "nan" \/ b.k = "nan" -> NaNF
      [] a.k = "inf" /\ b.k = "inf" -> IF a.v = b.v THEN a ELSE NaNF
      [] a.k = "inf" -> a
      [] b.k = "inf" -> b
      [] OTHER -> Fin(a.v + b.v)
FNeg(a) == [a EXCEPT !.v = 0 - a.v]
FSub(a, b) == FAdd(a, FNeg(b))

\* No call of the wallet's methods or of buy / sell was made yet.
NoCall == [op |-> "none"]

\* Wallet(code): the balance is 0.0 (models.py:148-154); the stored portfolio
\* has no wallet of the currency.
InitWallet == wallet = [balance |-> Fin(0), stored |-> None, last |-> NoCall]

\* The update-rates command has printed no result yet.
InitCommand == console = None

\* No fetch_rates call made yet.
InitClients == fcall = [made |-> FALSE]

\* RatesScheduler.__init__, lines 34-36; no thread started.
ThreadIds == 1..MaxThreads
DefaultInterval == 300
\* RatesScheduler.__init__ (scheduler.py:23-36): interval_seconds is stored as
\* it is given.
Construct(interval_seconds, callback) ==
    /\ running = FALSE
    /\ stop_event = FALSE
    /\ thread = 0
    /\ loops = [t \in ThreadIds |-> "unborn"]
    /\ mpc = "idle"
    /\ interval = interval_seconds
    /\ assigned = None
    /\ on_update = callback
    /\ ran = 0
    /\ delivered = <<>>
    /\ inflightAtStop = {}

\* RatesScheduler(on_update=...): interval_seconds takes its default.
InitScheduler(callback) == Construct(DefaultInterval, callback)

Init ==
    /\ clock = 0
    /\ \E store \in {FreshStore, UsedStore} :
          /\ ratesFile = store[1]
          /\ historyFile = store[2]
    /\ InitUpdater
    /\ InitWriter
    /\ InitHistoryCalls
    /\ InitCallers
    /\ InitScheduler(FALSE)
    /\ InitResolver
    /\ InitRoundTrip
    /\ InitWallet
    /\ InitCommand
    /\ InitClients

NextUpdater ==
    \/ \E sources \in SourceArgs : Begin(sources)
    \/ Skip
    \/ \E o \in FetchOutcomes : Fetch(o)
    \/ \E now \in Readings, writeFails \in BOOLEAN : SaveCache(now, writeFails)
    \/ \E now \in Readings, failAt \in 0..Len(KeyOrder) : SaveHistory(now, failAt)
    \/ Finalize

SpecUpdater == Init /\ [][NextUpdater]_vars

\* ---------------------------------- save_rates_cache and _write_json, by step
\* What rates.json can hold when a RatesStorage starts using it: nothing,
\* undecodable bytes, text that is not JSON, an empty file, JSON that is not
\* an object, or a cache document.
StoredRatesFiles ==
    {Missing, BadBytes, Garbage, Text(EmptyDoc, 0), JsonFile(PyNone),
     JsonFile(PyList(<<>>)), FreshStore[1], UsedStore[1]}

\* A file that holds a complete cache document.
IsCacheDocument(file) ==
    /\ file.kind = "text"
    /\ file.upto = NChunks(file.data)
    /\ file.data.t = "dict"

\* Mutant: the document is written straight into the target file.
StagePath_InPlace(target) == target

\* tempfile.mkstemp(dir=..., suffix=".tmp") (line 60): a new file beside the target
StagePath(target) == "tmp"

FileAt(path) == IF path = "rates.json" THEN ratesFile ELSE tmpFile

SetFile(path, content) ==
    IF path = "rates.json"
    THEN ratesFile' = content /\ UNCHANGED tmpFile
    ELSE tmpFile' = content /\ UNCHANGED ratesFile

\* Mutant: the except clause re-raises without removing the temporary file.
AfterUnlink_Kept(file) == file

\* if os.path.exists(temp_path): os.unlink(temp_path) (lines 66-67)
AfterUnlink(file) == Missing

WriteInFlight == fpc \in {"mkstemp", "dump", "replace", "except"}

\* save_rates_cache lines 82-100: the time is read, the cache is read and
\* merged; then _write_json is entered.
SaveBegin(rates, now) ==
    /\ fpc \in {"idle", "returned", "raised"}
    /\ saves < MaxSaves
    /\ saves' = saves + 1
    /\ clock' = now
    /\ frates' = rates
    /\ fbefore' = ratesFile
    /\ LET cache == GetRatesCache(ratesFile)
           merged == MergedCache(cache.val, rates, <<now>>, "ParserService")
       IN IF cache.raised
          THEN fpc' = "raised" /\ fexc' = cache.exc /\ UNCHANGED fdata
          ELSE IF merged.raised
          THEN fpc' = "raised" /\ fexc' = merged.exc /\ UNCHANGED fdata
          ELSE fpc' = "mkstemp" /\ fexc' = "" /\ fdata' = merged.val
    /\ UNCHANGED <<svars, tmpFile, lastRead, notWriter>>

\* The exceptions of _write_json's own steps.
WriteErrors == {"OSError in mkstemp", "error in json.dump", "OSError in os.replace"}

\* line 60, outside the try: on failure nothing was created
Mkstemp(fails) ==
    /\ fpc = "mkstemp"
    /\ IF fails
       THEN fpc' = "raised" /\ fexc' = "OSError in mkstemp"
            /\ UNCHANGED <<ratesFile, tmpFile>>
       ELSE /\ fpc' = "dump"
            /\ SetFile(StagePath("rates.json"), Text(fdata, 0))
            /\ UNCHANGED fexc
    /\ UNCHANGED <<clock, historyFile, frates, fdata, fbefore, lastRead, saves, notWriter>>

\* lines 62-63: json.dump writes the next piece, or fails (the with block
\* closes the file either way)
Dump(fails) ==
    /\ fpc = "dump"
    /\ LET path == StagePath("rates.json")
           sofar == FileAt(path).upto
       IN IF fails
          THEN /\ fpc' = "except"
               /\ fexc' = "error in json.dump"
               /\ UNCHANGED <<ratesFile, tmpFile>>
          ELSE /\ SetFile(path, Text(fdata, sofar + 1))
               /\ fpc' = IF sofar + 1 = NChunks(fdata) THEN "replace" ELSE "dump"
               /\ UNCHANGED fexc
    /\ UNCHANGED <<clock, historyFile, frates, fdata, fbefore, lastRead, saves, notWriter>>

\* line 64: os.replace(temp_path, filepath)
Replace(fails) ==
    /\ fpc = "replace"
    /\ LET path == StagePath("rates.json")
       IN IF fails
          THEN /\ fpc' = "except"
               /\ fexc' = "OSError in os.replace"
               /\ UNCHANGED <<ratesFile, tmpFile>>
          ELSE /\ fpc' = "returned"
               /\ IF path = "rates.json"
                  THEN UNCHANGED <<ratesFile, tmpFile>>
                  ELSE ratesFile' = tmpFile /\ tmpFile' = Missing
               /\ UNCHANGED fexc
    /\ UNCHANGED <<clock, historyFile, frates, fdata, fbefore, lastRead, saves, notWriter>>

\* lines 65-68: the except clause removes the temporary file and re-raises
Except ==
    /\ fpc = "except"
    /\ LET path == StagePath("rates.json")
       IN SetFile(path, AfterUnlink(FileAt(path)))
    /\ fpc' = "raised"
    /\ UNCHANGED <<clock, historyFile, frates, fdata, fexc, fbefore, lastRead, saves,
                   notWriter>>

\* get_rates_cache / DatabaseManager.get_rates by another thread
ReadCache ==
    /\ lastRead' = [res |-> GetRatesCache(ratesFile),
                    corrupt |-> ~IsCacheDocument(ratesFile),
                    during |-> IF WriteInFlight THEN saves ELSE 0]
    /\ UNCHANGED <<clock, svars, tmpFile, fpc, frates, fdata, fexc, fbefore, saves,
                   notWriter>>

InitFile ==
    /\ clock = 0
    /\ ratesFile \in StoredRatesFiles
    /\ historyFile = FreshStore[2]
    /\ InitUpdater
    /\ InitWriter
    /\ InitHistoryCalls
    /\ InitCallers
    /\ InitScheduler(FALSE)
    /\ InitResolver
    /\ InitRoundTrip
    /\ InitWallet
    /\ InitCommand
    /\ InitClients

NextFile ==
    \/ \E rates \in RateMaps, now \in Readings : SaveBegin(rates, now)
    \/ \E fails \in BOOLEAN : Mkstemp(fails)
    \/ \E fails \in BOOLEAN : Dump(fails)
    \/ \E fails \in BOOLEAN : Replace(fails)
    \/ Except
    \/ ReadCache

SpecFile == InitFile /\ [][NextFile]_vars

\* ------------------------------------------------- add_history_record calls
\* The records handed to add_history_record / add_exchange_rate_record: the
\* ones save_rates_to_history builds, and records of other callers whose id
\* is absent (None) or the empty string.
BuiltRecords ==
    {HistoryRecord(p, r, <<t>>, "ParserService", None) :
        p \in PairKeys, r \in {1, MaxRate}, t \in 0..MaxClock}
NoIdRecords ==
    {[HistoryRecord(BTC_USD, r, <<0>>, "ParserService", None) EXCEPT !.id = i] :
        r \in {1, MaxRate}, i \in {None, EmptyStr}}
RecordArgs == BuiltRecords \cup NoIdRecords

\* The list get_history reads from the file now.
StoredHistory == GetHistory(historyFile).val

AddRecord(record, writeFails) ==
    /\ Len(StoredHistory) < MaxHistory
    /\ LET r == AddHistoryRecord(historyFile, record, writeFails)
       IN /\ historyFile' = r.file
          /\ hcall' = [made |-> TRUE, record |-> record, before |-> StoredHistory,
                       writes |-> r.writes, raised |-> r.raised]
    /\ UNCHANGED notHistory

\* str > str: the texts are compared piece by piece, and a text that is a
\* proper prefix of another is the smaller one.
RECURSIVE TextGreater(_, _)
TextGreater(a, b) ==
    IF a = <<>> THEN FALSE
    ELSE IF b = <<>> THEN TRUE
    ELSE IF Head(a) # Head(b) THEN Head(a) > Head(b)
    ELSE TextGreater(Tail(a), Tail(b))

\* The text of a stored timestamp, isoformat() + "Z" (line 165), and of the
\* cutoff, isoformat() alone (line 213).
StampText(timestamp) == timestamp \o <<"Z">>
CutoffText(now, days) == <<now - days>>

\* Mutant: the comparison of line 215 is the other way round.
Filtered_Older(history, cutoff) ==
    SelectSeq(history, LAMBDA r : ~TextGreater(StampText(r.timestamp), cutoff))

\* line 215: [r for r in history if r.get("timestamp", "") > cutoff]
Filtered(history, cutoff) ==
    SelectSeq(history, LAMBDA r : TextGreater(StampText(r.timestamp), cutoff))

\* RatesStorage.clear_old_history(days) at clock reading now (lines 207-220)
\* against the file `file`.
ClearOldHistory(file, now, days, writeFails) ==
    LET history == GetHistory(file)
        filtered == Filtered(history.val, CutoffText(now, days))
    IN IF history.raised THEN Failed(history.exc, file, 0)
       ELSE IF Len(history.val) - Len(filtered) > 0
       THEN IF writeFails THEN Failed("OSError", file, 1)
            ELSE Done(JsonFile(PyList(filtered)), 1)
       ELSE Done(file, 0)

\* The days argument, in clock readings.
DaysArgs == {0, 1}

ClearHistory(now, days, writeFails) ==
    /\ clock' = now
    /\ LET r == ClearOldHistory(historyFile, now, days, writeFails)
       IN /\ historyFile' = r.file
          /\ hcall' = [made |-> FALSE, cutoff |-> now - days, before |-> StoredHistory,
                       writes |-> r.writes, raised |-> r.raised]
    /\ UNCHANGED <<ratesFile, uvars, fvars, ovars, schvars, gvars, rtvars, fcvars, clivars, wvars>>

\* The records appended between prunings: one rate for each pair and time.
PrunedRecords ==
    {HistoryRecord(p, 1, <<t>>, "ParserService", None) :
        p \in PairKeys, t \in 0..MaxClock}

NextPrune ==
    \/ \E record \in PrunedRecords, writeFails \in BOOLEAN : AddRecord(record, writeFails)
    \/ \E now \in Readings, days \in DaysArgs, writeFails \in BOOLEAN :
          ClearHistory(now, days, writeFails)

SpecPrune == Init /\ [][NextPrune]_vars

NextHistory == \E record \in RecordArgs, writeFails \in BOOLEAN : AddRecord(record, writeFails)

SpecHistory == Init /\ [][NextHistory]_vars

\* ------------------------------------------- overlapping update cycles
\* Caller c enters run_update and reaches `if all_rates:` (updater.py:99)
\* with the non-empty map its clients returned.
RunUpdate(c, rates) ==
    /\ cycle[c].pc = "idle"
    /\ cycle[c].n < MaxCycles
    /\ rates # EmptyDict
    /\ cycle' = [cycle EXCEPT ![c] = [@ EXCEPT !.pc = "now", !.rates = rates]]
    /\ UNCHANGED <<clock, svars, notCallers>>

\* save_rates_cache, line 83: current_time = datetime.now()
SampleTime(c, now) ==
    /\ cycle[c].pc = "now"
    /\ clock' = now
    /\ cycle' = [cycle EXCEPT ![c] = [@ EXCEPT !.pc = "read", !.current_time = <<now>>]]
    /\ UNCHANGED <<svars, notCallers>>

\* save_rates_cache, line 86: cache = self.get_rates_cache()
ReadCurrent(c) ==
    /\ cycle[c].pc = "read"
    /\ LET r == GetRatesCache(ratesFile)
       IN cycle' = [cycle EXCEPT ![c] =
                      IF r.raised THEN Idle(@.n + 1)
                      ELSE [@ EXCEPT !.pc = "write", !.cache = r.val]]
    /\ UNCHANGED <<clock, svars, notCallers>>

\* save_rates_cache, lines 89-102: merge into the cache read at line 86 and
\* install the document by _write_json's os.replace. A failure ends the cycle
\* with the exception.
WriteMerged(c, writeFails) ==
    /\ cycle[c].pc = "write"
    /\ LET merged == MergedCache(cycle[c].cache, cycle[c].rates,
                                 cycle[c].current_time, "ParserService")
       IN IF merged.raised \/ writeFails
          THEN /\ cycle' = [cycle EXCEPT ![c] = Idle(@.n + 1)]
               /\ UNCHANGED ratesFile
          ELSE /\ cycle' = [cycle EXCEPT ![c] = [@ EXCEPT !.pc = "history"]]
               /\ ratesFile' = JsonFile(merged.val)
    /\ UNCHANGED <<clock, historyFile, notCallers>>

\* updater.py:101-103: save_rates_to_history, with its own clock reading;
\* the cycle ends, by return or by the exception of a failed write.
WriteHistory(c, now, failAt) ==
    /\ cycle[c].pc = "history"
    /\ clock' = now
    /\ historyFile' = SaveRatesToHistory(historyFile, cycle[c].rates, now,
                                         "ParserService", None, failAt).file
    /\ cycle' = [cycle EXCEPT ![c] = Idle(@.n + 1)]
    /\ UNCHANGED <<ratesFile, notCallers>>

NextCallers ==
    \E c \in Callers :
        \/ \E rates \in RateMaps : RunUpdate(c, rates)
        \/ \E now \in Readings : SampleTime(c, now)
        \/ ReadCurrent(c)
        \/ \E writeFails \in BOOLEAN : WriteMerged(c, writeFails)
        \/ \E now \in Readings, failAt \in 0..1 : WriteHistory(c, now, failAt)

SpecCallers == Init /\ [][NextCallers]_vars

\* --------------------------------------------------------- RatesScheduler
\* start(), lines 58-62
Start ==
    /\ mpc = "idle"
    /\ IF running
       THEN UNCHANGED <<running, mpc>>
       ELSE running' = TRUE /\ mpc' = "clear"
    /\ UNCHANGED <<stop_event, thread, loops, svc, inflightAtStop, notScheduler>>

\* start(), line 63
StartClear ==
    /\ mpc = "clear"
    /\ stop_event' = FALSE
    /\ mpc' = "spawn"
    /\ UNCHANGED <<running, thread, loops, svc, inflightAtStop, notScheduler>>

\* start(), lines 64-65: a new thread enters _run_loop
StartThread ==
    /\ mpc = "spawn"
    /\ \E t \in ThreadIds :
          /\ loops[t] = "unborn"
          /\ \A u \in 1..(t - 1) : loops[u] # "unborn"
          /\ thread' = t
          /\ loops' = [loops EXCEPT ![t] = "first"]
    /\ mpc' = "idle"
    /\ UNCHANGED <<running, stop_event, svc, inflightAtStop, notScheduler>>

\* stop(), lines 71-74
Stop ==
    /\ mpc = "idle"
    /\ IF ~running
       THEN UNCHANGED <<running, mpc, inflightAtStop>>
       ELSE /\ running' = FALSE
            /\ mpc' = "set"
            /\ inflightAtStop' = {t \in ThreadIds : loops[t] \in {"updating", "caught"}}
    /\ UNCHANGED <<stop_event, thread, loops, svc, notScheduler>>

\* stop(), line 75
StopSet ==
    /\ mpc = "set"
    /\ stop_event' = TRUE
    /\ mpc' = "alive"
    /\ UNCHANGED <<running, thread, loops, svc, inflightAtStop, notScheduler>>

\* A thread of the scheduler that has not left _run_loop.
IsAlive(t) == t # 0 /\ loops[t] \notin {"unborn", "dead"}

\* stop(), line 77
StopIsAlive ==
    /\ mpc = "alive"
    /\ mpc' = IF IsAlive(thread) THEN "join" ELSE "idle"
    /\ UNCHANGED <<running, stop_event, thread, loops, svc, inflightAtStop, notScheduler>>

\* stop(), line 78: join(timeout) returns when the thread has ended or when
\* the timeout has passed, whichever comes first.
JoinReturns(timedOut) ==
    /\ mpc = "join"
    /\ timedOut \/ ~IsAlive(thread)
    /\ mpc' = "idle"
    /\ UNCHANGED <<running, stop_event, thread, loops, svc, inflightAtStop, notScheduler>>

\* _run_loop lines 87 and 95: _do_update is entered; the cycle is in flight.
BeginUpdate(t) ==
    /\ loops[t] \in {"first", "update"}
    /\ loops' = [loops EXCEPT ![t] = "updating"]
    /\ UNCHANGED <<running, stop_event, thread, mpc, svc, inflightAtStop, notScheduler>>

\* Mutant: an exception of the callback leaves _do_update and ends the thread.
AfterCallback_Escapes(cbRaises) == IF cbRaises THEN "dead" ELSE "while"

\* _do_update lines 105-109: where the thread is once the callback has
\* returned or raised: in the except clause, or back at the loop condition.
AfterCallback(cbRaises) == IF cbRaises THEN "caught" ELSE "while"

\* Mutant: an exception of run_update leaves _do_update and ends the thread.
EndUpdate_Escapes(t, raises, cbRaises) ==
    /\ loops[t] = "updating"
    /\ cbRaises => (~raises /\ on_update)
    /\ loops' = [loops EXCEPT ![t] = IF raises THEN "dead" ELSE AfterCallback(cbRaises)]
    /\ IF raises
       THEN UNCHANGED <<ran, delivered>>
       ELSE /\ ran < MaxRuns
            /\ ran' = ran + 1
            /\ delivered' = IF on_update THEN Append(delivered, ran + 1)
                                          ELSE delivered
    /\ UNCHANGED <<running, stop_event, thread, mpc, interval, assigned,
                   on_update, inflightAtStop, notScheduler>>

\* _do_update lines 101-112: run_update returns or raises, the exception is
\* logged; the callback, if there is one, is called with the result and
\* returns or raises an Exception; back to the loop condition.
EndUpdate(t, raises, cbRaises) ==
    /\ loops[t] = "updating"
    /\ cbRaises => (~raises /\ on_update)
    /\ loops' = [loops EXCEPT ![t] = AfterCallback(cbRaises)]
    /\ IF raises
       THEN UNCHANGED <<ran, delivered>>
       ELSE /\ ran < MaxRuns
            /\ ran' = ran + 1
            /\ delivered' = IF on_update THEN Append(delivered, ran + 1)
                                          ELSE delivered
    /\ UNCHANGED <<running, stop_event, thread, mpc, interval, assigned,
                   on_update, inflightAtStop, notScheduler>>

\* _do_update lines 108-109: the callback's exception is logged.
CallbackCaught(t) ==
    /\ loops[t] = "caught"
    /\ loops' = [loops EXCEPT ![t] = "while"]
    /\ UNCHANGED <<running, stop_event, thread, mpc, svc, inflightAtStop, notScheduler>>

\* Mutant: trigger_update marks the scheduler as running.
TriggerUpdate_SetsRunning(raises) ==
    /\ IF raises THEN UNCHANGED ran ELSE ran < MaxRuns /\ ran' = ran + 1
    /\ running' = TRUE
    /\ UNCHANGED <<stop_event, thread, loops, mpc, interval, assigned,
                   on_update, delivered, inflightAtStop, notScheduler>>

\* trigger_update, lines 114-117: run_update in the caller's thread; its
\* result goes to the caller, an exception too.
TriggerUpdate(raises) ==
    /\ IF raises THEN UNCHANGED ran ELSE ran < MaxRuns /\ ran' = ran + 1
    /\ UNCHANGED <<running, stop_event, thread, loops, mpc, interval, assigned,
                   on_update, delivered, inflightAtStop, notScheduler>>

\* The floor of the interval setter, line 51.
MinInterval == 60

\* Mutant: the setter stores the value as given.
Clamped_NoFloor(value) == value

\* interval setter, lines 51-53
Clamped(value) == IF value < MinInterval THEN MinInterval ELSE value

\* interval setter, lines 48-54
SetInterval(value) ==
    /\ interval' = Clamped(value)
    /\ assigned' = <<value>>
    /\ UNCHANGED <<running, stop_event, thread, loops, mpc, on_update, ran,
                   delivered, inflightAtStop, notScheduler>>

\* The values assigned to interval.
IntervalArgs == (MinInterval - 1)..(MinInterval + MaxOver)

\* _run_loop line 89
LoopCondition(t) ==
    /\ loops[t] = "while"
    /\ loops' = [loops EXCEPT ![t] = IF running THEN "wait" ELSE "dead"]
    /\ UNCHANGED <<running, stop_event, thread, mpc, svc, inflightAtStop, notScheduler>>

\* Mutant: the wait always runs to its timeout, whatever the stop event.
Wait_IgnoresSignal(t) ==
    /\ loops[t] = "wait"
    /\ loops' = [loops EXCEPT ![t] = "if"]
    /\ UNCHANGED <<running, stop_event, thread, mpc, svc, inflightAtStop, notScheduler>>

\* _run_loop lines 91-92: wait returns True at once when the event is set,
\* and False when the interval passes with the event clear.
Wait(t) ==
    /\ loops[t] = "wait"
    /\ loops' = [loops EXCEPT ![t] = IF stop_event THEN "dead" ELSE "if"]
    /\ UNCHANGED <<running, stop_event, thread, mpc, svc, inflightAtStop, notScheduler>>

\* _run_loop line 94
IfRunning(t) ==
    /\ loops[t] = "if"
    /\ loops' = [loops EXCEPT ![t] = IF running THEN "update" ELSE "while"]
    /\ UNCHANGED <<running, stop_event, thread, mpc, svc, inflightAtStop, notScheduler>>

NextScheduler ==
    \/ Start
    \/ StartClear
    \/ StartThread
    \/ Stop
    \/ StopSet
    \/ StopIsAlive
    \/ \E timedOut \in BOOLEAN : JoinReturns(timedOut)
    \/ \E raises \in BOOLEAN : TriggerUpdate(raises)
    \/ \E value \in IntervalArgs : SetInterval(value)
    \/ \E t \in ThreadIds :
          \/ BeginUpdate(t)
          \/ \E raises \in BOOLEAN, cbRaises \in BOOLEAN : EndUpdate(t, raises, cbRaises)
          \/ CallbackCaught(t)
          \/ LoopCondition(t)
          \/ Wait(t)
          \/ IfRunning(t)

\* RatesScheduler(on_update=...) with or without a callback.
InitWithCallback ==
    /\ clock = 0
    /\ ratesFile = FreshStore[1]
    /\ historyFile = FreshStore[2]
    /\ InitUpdater
    /\ InitWriter
    /\ InitHistoryCalls
    /\ InitCallers
    /\ \E callback \in BOOLEAN : InitScheduler(callback)
    /\ InitResolver
    /\ InitRoundTrip
    /\ InitWallet
    /\ InitCommand
    /\ InitClients

SpecScheduler == InitWithCallback /\ [][NextScheduler]_vars

\* ------------------------------------- a scheduler built with an interval
\* RatesScheduler(interval_seconds=value).  start_scheduler (lines 143-147)
\* works on the scheduler get_scheduler() built with the default interval:
\* it is SetInterval(value) followed by Start, both steps of NextScheduler.
ConstructorArgs == IntervalArgs \cup {DefaultInterval}

InitConstructed ==
    /\ clock = 0
    /\ ratesFile = FreshStore[1]
    /\ historyFile = FreshStore[2]
    /\ InitUpdater
    /\ InitWriter
    /\ InitHistoryCalls
    /\ InitCallers
    /\ \E value \in ConstructorArgs, callback \in BOOLEAN : Construct(value, callback)
    /\ InitResolver
    /\ InitRoundTrip
    /\ InitWallet
    /\ InitCommand
    /\ InitClients

SpecInterval == InitConstructed /\ [][NextScheduler]_vars

\* ------------------------------------- the scheduled cycle and stop()
\* One start(), the run_update of the loop thread's first _do_update step by
\* step, and stop() calls at any moment of it; the thread is followed up to
\* the start of its second cycle.

\* Mutant: run_update goes on only while _running is set.
InCycle_WhileRunning ==
    /\ thread # 0 /\ loops[thread] = "updating" /\ cycles = 1
    /\ running

\* _do_update line 103: the loop thread is inside its first run_update,
\* whose steps test neither _running nor the stop event.
InCycle == thread # 0 /\ loops[thread] = "updating" /\ cycles = 1

\* _do_update line 103: self._updater.run_update() is called, no sources.
CycleBegins ==
    /\ thread # 0 /\ loops[thread] = "updating" /\ cycles = 0
    /\ Begin(NoSources)

\* What the clients return in this cycle: maps whose rates are all 1, or an
\* error.
CycleOutcomes ==
    {o \in FetchOutcomes :
        o.kind = "ok" => \A k \in DOMAIN o.rates.at : o.rates.at[k] = 1}

\* The next step of the run_update in flight.
CycleStep ==
    /\ InCycle
    /\ \/ Skip
       \/ \E o \in CycleOutcomes : Fetch(o)
       \/ \E now \in Readings, writeFails \in BOOLEAN : SaveCache(now, writeFails)
       \/ \E now \in Readings, failAt \in 0..Len(KeyOrder) : SaveHistory(now, failAt)
       \/ Finalize

\* _do_update lines 103-112: the run_update in flight has returned or raised.
CycleEnds(t, cbRaises) ==
    /\ InCycle /\ t = thread
    /\ upc \in {"returned", "raised"}
    /\ EndUpdate(t, upc = "raised", cbRaises)

NextStop ==
    \/ thread = 0 /\ Start
    \/ StartClear
    \/ StartThread
    \/ Stop
    \/ StopSet
    \/ StopIsAlive
    \/ \E timedOut \in BOOLEAN : JoinReturns(timedOut)
    \/ \E t \in ThreadIds : loops[t] = "first" /\ BeginUpdate(t)
    \/ CycleBegins
    \/ CycleStep
    \/ \E t \in ThreadIds, cbRaises \in BOOLEAN : CycleEnds(t, cbRaises)
    \/ \E t \in ThreadIds : LoopCondition(t) \/ Wait(t) \/ IfRunning(t)

SpecStop == InitWithCallback /\ [][NextStop]_vars

\* ------------------------------------------------ the update-rates command
\* ValutaTradeCLI._cmd_update_rates (cli/interface.py:459-494).  The line
\* "INFO: Starting rates update..." printed before run_update is left out.

\* args.get("source"): None, or the text given
SourceOptions == {None, <<"">>, <<coingecko>>, <<exchangerateapi>>, <<binance>>}

\* lines 465-467: the sources handed to run_update
CmdSources(source) ==
    IF source # None /\ source[1] # "" THEN SourceList(<<source[1]>>) ELSE NoSources

\* bool(result.get("success")): True, False or the text "partial"
SuccessTruthy(success) == success # "False"

\* lines 473-480: one line for each entry of result["sources"], in the order
\* the clients were asked
SourceLine(name, source_result) ==
    IF source_result.status = "OK"
    THEN <<"INFO: Fetching from ", name, "... OK (", source_result.rates_count, " rates)">>
    ELSE <<"ERROR: Failed to fetch from ", name, ": ">> \o source_result.error

RECURSIVE SourceLines(_, _)
SourceLines(res, i) ==
    IF i > Len(Clients) THEN <<>>
    ELSE (IF Clients[i] \in DOMAIN res.sources
          THEN <<SourceLine(Clients[i], res.sources[Clients[i]])>>
          ELSE <<>>) \o SourceLines(res, i + 1)

\* lines 482-484
WritingLine(res) ==
    IF res.total_rates > 0
    THEN <<<<"INFO: Writing ", res.total_rates, " rates to data/rates.json...">>>>
    ELSE <<>>

UpdateSuccessful(total) == <<"Update successful. Total rates updated: ", total>>
CompletedWithErrors == <<"Update completed with errors. Check logs/parser.log for details.">>
UpdateFailed == <<"Update failed. Check logs/parser.log for details.">>

\* lines 486-494: the if / elif / else on result.get("success")
StatusLine(res) ==
    IF SuccessTruthy(res.success) THEN UpdateSuccessful(res.total_rates)
    ELSE IF res.success = "partial" THEN CompletedWithErrors
    ELSE UpdateFailed

\* lines 462-470: the command creates a RatesUpdater and calls run_update
CmdUpdateRates(source) ==
    /\ upc = "idle" /\ console = None
    /\ Begin(CmdSources(source))

\* lines 472-494: run_update has returned and the command prints the result
CmdPrints ==
    /\ upc = "returned" /\ console = None
    /\ console' = SourceLines(results, 1) \o WritingLine(results) \o <<StatusLine(results)>>
    /\ UNCHANGED notCommand

NextCommand ==
    \/ \E source \in SourceOptions : CmdUpdateRates(source)
    \/ Skip
    \/ \E o \in FetchOutcomes : Fetch(o)
    \/ \E now \in Readings, writeFails \in BOOLEAN : SaveCache(now, writeFails)
    \/ \E now \in Readings, failAt \in 0..Len(KeyOrder) : SaveHistory(now, failAt)
    \/ Finalize
    \/ CmdPrints

SpecCommand == Init /\ [][NextCommand]_vars

\* ------------------------------------------------------- Wallet, buy, sell
\* Wallet.deposit / withdraw on one Wallet object (core/models.py:175-195),
\* and PortfolioService.buy / sell on the wallet of one currency in the
\* stored portfolio (core/usecases.py:178-274).
MaxBalance == 2

\* The amounts handed to the calls.
Amounts == {Fin(n) : n \in -1..MaxBalance} \cup {PosInf, NegInf, NaNF, NotNumber}

\* The balances the model follows: whole ones up to MaxBalance, inf and nan.
Followed(balance) == balance.k = "fin" => balance.v <= MaxBalance

\* Wallet.deposit, lines 175-181: the new _balance, or the exception
DepositResult(balance, amount) ==
    IF amount.k = "str" THEN Raised("ValidationError")
    ELSE IF FLessEq(amount, Fin(0)) THEN Raised("ValidationError")
    ELSE Returned(FAdd(balance, amount))

\* Wallet.withdraw, lines 183-195
WithdrawResult(balance, amount) ==
    IF amount.k = "str" THEN Raised("ValidationError")
    ELSE IF FLessEq(amount, Fin(0)) THEN Raised("ValidationError")
    ELSE IF FLess(balance, amount) THEN Raised("InsufficientFundsError")
    ELSE Returned(FSub(balance, amount))

\* validate_amount (core/utils.py:25-39): float(amount), then amount <= 0
ValidateAmount(amount) ==
    IF amount.k = "str" THEN Raised("ValidationError")
    ELSE IF FLessEq(amount, Fin(0)) THEN Raised("ValidationError")
    ELSE Returned(amount)

\* A call and how it ended.
Call(op, amount, r) ==
    [op |-> op, amount |-> amount, raised |-> r.raised,
     exc |-> IF r.raised THEN r.exc ELSE ""]

Deposit(amount) ==
    LET r == DepositResult(wallet.balance, amount)
    IN /\ ~r.raised => Followed(r.val)
       /\ wallet' = [wallet EXCEPT
                        !.balance = IF r.raised THEN @ ELSE r.val,
                        !.last = Call("deposit", amount, r)]
       /\ UNCHANGED notWallet

Withdraw(amount) ==
    LET r == WithdrawResult(wallet.balance, amount)
    IN /\ wallet' = [wallet EXCEPT
                        !.balance = IF r.raised THEN @ ELSE r.val,
                        !.last = Call("withdraw", amount, r)]
       /\ UNCHANGED notWallet

\* PortfolioService.buy, lines 178-226: the portfolio is loaded, the wallet
\* is created if there is none, the amount deposited and the portfolio
\* saved; without a rate for a currency other than the base the call raises.
BuyResult(stored, amount, rateKnown) ==
    LET a == ValidateAmount(amount)
    IN IF a.raised THEN a
       ELSE IF ~rateKnown THEN Raised("ApiRequestError")
       ELSE DepositResult(IF stored = None THEN Fin(0) ELSE stored[1], a.val)

Buy(amount, rateKnown) ==
    LET r == BuyResult(wallet.stored, amount, rateKnown)
    IN /\ ~r.raised => Followed(r.val)
       /\ wallet' = [wallet EXCEPT
                        !.stored = IF r.raised THEN @ ELSE <<r.val>>,
                        !.last = Call("buy", amount, r)]
       /\ UNCHANGED notWallet

\* PortfolioService.sell, lines 228-274: the portfolio is loaded, the amount
\* withdrawn from its wallet and the portfolio saved.
SellResult(stored, amount) ==
    LET a == ValidateAmount(amount)
    IN IF a.raised THEN a
       ELSE IF stored = None THEN Raised("WalletNotFoundError")
       ELSE WithdrawResult(stored[1], a.val)

Sell(amount) ==
    LET r == SellResult(wallet.stored, amount)
    IN /\ wallet' = [wallet EXCEPT
                        !.stored = IF r.raised THEN @ ELSE <<r.val>>,
                        !.last = Call("sell", amount, r)]
       /\ UNCHANGED notWallet

NextWallet ==
    \/ \E amount \in Amounts : Deposit(amount)
    \/ \E amount \in Amounts : Withdraw(amount)
    \/ \E amount \in Amounts, rateKnown \in BOOLEAN : Buy(amount, rateKnown)
    \/ \E amount \in Amounts : Sell(amount)

SpecWallet == Init /\ [][NextWallet]_vars

\* --------------------------------------------------- RatesService.get_rate
\* Numbers get_rate returns: the quotient n/d in lowest terms.
RECURSIVE GCD(_, _)
GCD(a, b) == IF b = 0 THEN a ELSE GCD(b, a % b)
Frac(n, d) == LET g == GCD(n, d) IN [n |-> n \div g, d |-> d \div g]

\* str.upper() on one character
UpperChar(c) ==
    IF \E i \in DOMAIN LowerCase : LowerCase[i] = c
    THEN UpperCase[CHOOSE i \in DOMAIN LowerCase : LowerCase[i] = c]
    ELSE c
Upper(s) == [i \in DOMAIN s |-> UpperChar(s[i])]

\* str.strip()
RECURSIVE LStrip(_)
LStrip(s) == IF s # <<>> /\ s[1] = " " THEN LStrip(Tail(s)) ELSE s
RECURSIVE RStrip(_)
RStrip(s) == IF s # <<>> /\ s[Len(s)] = " " THEN RStrip(SubSeq(s, 1, Len(s) - 1)) ELSE s
Strip(s) == RStrip(LStrip(s))

\* validate_currency_code (utils.py:14-22)
ValidateCurrencyCode(code) ==
    IF code = <<>> \/ Strip(code) = <<>> THEN Raised("ValidationError")
    ELSE LET c == Strip(Upper(code))
         IN IF Len(c) \in 2..5 /\ \A i \in DOMAIN c : c[i] \in Range(UpperCase)
            THEN Returned(c)
            ELSE Raised("ValidationError")

\* The keys of _CURRENCY_REGISTRY (currencies.py:126-147), each with the
\* string it is written as in a pair key.
CurrencyRegistry ==
    { [chars |-> <<"U","S","D">>, code |-> "USD"],
      [chars |-> <<"E","U","R">>, code |-> "EUR"],
      [chars |-> <<"G","B","P">>, code |-> "GBP"],
      [chars |-> <<"R","U","B">>, code |-> "RUB"],
      [chars |-> <<"J","P","Y">>, code |-> "JPY"],
      [chars |-> <<"C","N","Y">>, code |-> "CNY"],
      [chars |-> <<"C","H","F">>, code |-> "CHF"],
      [chars |-> <<"C","A","D">>, code |-> "CAD"],
      [chars |-> <<"A","U","D">>, code |-> "AUD"],
      [chars |-> <<"B","T","C">>, code |-> "BTC"],
      [chars |-> <<"E","T","H">>, code |-> "ETH"],
      [chars |-> <<"S","O","L">>, code |-> "SOL"],
      [chars |-> <<"X","R","P">>, code |-> "XRP"],
      [chars |-> <<"A","D","A">>, code |-> "ADA"],
      [chars |-> <<"D","O","G","E">>, code |-> "DOGE"],
      [chars |-> <<"L","T","C">>, code |-> "LTC"] }

\* get_currency (currencies.py:157-162)
GetCurrency(code) ==
    LET c == Strip(Upper(code))
    IN IF \E e \in CurrencyRegistry : e.chars = c
       THEN Returned((CHOOSE e \in CurrencyRegistry : e.chars = c).code)
       ELSE Raised("CurrencyNotFoundError")

\* A cache entry is a dict {rate, updated_at, source} or a bare number.
IsDict(entry) == "rate" \in DOMAIN entry
Bare(rate) == [num |-> rate]
\* rate_info.get("rate") if isinstance(rate_info, dict) else rate_info
RateOf(entry) == IF IsDict(entry) THEN entry.rate ELSE entry.num
\* Python truth value of an entry: a non-empty dict, a non-zero number.
EntryTruthy(entry) == IsDict(entry) \/ entry.num # 0
\* pairs.get(key)
PairsGet(pairs, key) == IF key \in DOMAIN pairs THEN <<pairs[key]>> ELSE None

\* A timestamp string fromisoformat rejects.
BadStamp == <<0, 0>>

\* parse_datetime (utils.py:58-67) on an updated_at value of the cache: the
\* second of the parsed time, None for None and for a ValueError.
ParseDatetime(value) ==
    IF value = None THEN None
    ELSE IF Len(value) # 1 THEN None
    ELSE value

\* Mutant: an entry aged exactly the TTL counts as fresh.
IsRateFresh_Inclusive(updated_at, ttl_seconds, now) ==
    LET parsed == ParseDatetime(updated_at)
    IN parsed # None /\ now - parsed[1] <= ttl_seconds

\* is_rate_fresh (utils.py:134-146), with the reading of datetime.now()
IsRateFresh(updated_at, ttl_seconds, now) ==
    LET parsed == ParseDatetime(updated_at)
    IN IF parsed = None THEN FALSE
       ELSE now - parsed[1] < ttl_seconds

\* The pivot of calculate_rate, line 108.
Pivot == "USD"

\* Mutant: the legs are divided the other way round.
Triangulated_Swapped(from_rate, to_rate) ==
    IF from_rate # None /\ from_rate[1] # 0 /\ to_rate # None /\ to_rate[1] # 0
    THEN <<Frac(to_rate[1], from_rate[1])>>
    ELSE None

\* calculate_rate, lines 123-126; from_rate and to_rate are <<rate>>, or None
\* for a leg that is not cached.
Triangulated(from_rate, to_rate) ==
    IF from_rate # None /\ from_rate[1] # 0 /\ to_rate # None /\ to_rate[1] # 0
    THEN <<Frac(from_rate[1], to_rate[1])>>
    ELSE None

\* calculate_rate (utils.py:79-126); the result is None or <<number>>.
CalculateRate(from_code, to_code, rates) ==
    LET direct_pair == <<from_code, to_code>>
        reverse_pair == <<to_code, from_code>>
        rrate == RateOf(rates[reverse_pair])
        legRate(k) == IF k \in DOMAIN rates THEN <<RateOf(rates[k])>> ELSE None
    IN IF from_code = to_code THEN <<Frac(1, 1)>>
       ELSE IF direct_pair \in DOMAIN rates
       THEN <<Frac(RateOf(rates[direct_pair]), 1)>>
       ELSE IF reverse_pair \in DOMAIN rates /\ rrate # 0
       THEN <<Frac(1, rrate)>>
       ELSE IF from_code # Pivot /\ to_code # Pivot
       THEN Triangulated(legRate(<<from_code, Pivot>>), legRate(<<to_code, Pivot>>))
       ELSE None

\* self._settings.get("rates_ttl_seconds", 300), lines 319 and 346
DefaultTTL == 300
TTL(setting) == IF setting = None THEN DefaultTTL ELSE setting[1]

\* x / y in Python: ZeroDivisionError for y = 0.
Div(x, y) == IF y = 0 THEN Raised("ZeroDivisionError") ELSE Returned(Frac(x, y))

\* 1.0 / rate if rate else None
ReverseOf(rate) == IF rate # 0 THEN <<Div(1, rate).val>> ELSE None

\* Mutant: the zero test of line 340 is missing.
Invertible_NoZeroTest(reverse_rate) == TRUE

\* line 340: if reverse_rate and reverse_rate != 0
Invertible(reverse_rate) == reverse_rate # 0

\* Mutant: a calculated rate is as fresh as the cache's last_refresh.
CalculatedFresh_ByAge(last_refresh, ttl_seconds, now) ==
    IsRateFresh(last_refresh, ttl_seconds, now)

\* line 371: "fresh": True
CalculatedFresh(last_refresh, ttl_seconds, now) == TRUE

\* ApiRequestError(reason) (exceptions.py:52-55): the message is a fixed
\* prefix followed by the reason; texts are kept as sequences of pieces.
ApiRequestError(reason) ==
    [raised |-> TRUE, exc |-> "ApiRequestError",
     msg |-> <<"API request error: ">> \o reason]

\* The reason of line 374: f"rate {from_code}->{to_code} unavailable. ..."
Unavailable(from_code, to_code) ==
    <<"rate ", from_code, "->", to_code, " unavailable. Retry later.">>

\* Mutant: the reverse pair is tried before the direct pair.
Resolve_ReverseFirst(file, from_code, to_code, now, setting) ==
    LET rates_data == GetRatesCache(file)
        doc == rates_data.val
        pairs == doc.pairs
        rate_info == PairsGet(pairs, <<from_code, to_code>>)
        reverse_info == PairsGet(pairs, <<to_code, from_code>>)
        direct == rate_info[1]
        reverse == reverse_info[1]
        stamp(e) == IF IsDict(e) THEN e.updated_at ELSE None
        label(e) == IF IsDict(e) THEN e.source ELSE "cache"
        inverse == Div(1, RateOf(reverse))
        rate == CalculateRate(from_code, to_code, pairs)
        out(res) == [res |-> res, reads |-> 1]
    IN IF rates_data.raised THEN out(rates_data)
       ELSE IF doc.t # "dict" THEN out(Raised("AttributeError"))
       ELSE IF reverse_info # None /\ EntryTruthy(reverse)
                /\ Invertible(RateOf(reverse))
       THEN IF inverse.raised THEN out(inverse)
            ELSE out(Returned(
                    [from_code |-> from_code, to_code |-> to_code,
                     rate |-> inverse.val,
                     reverse_rate |-> <<Frac(RateOf(reverse), 1)>>,
                     updated_at |-> stamp(reverse), source |-> label(reverse),
                     fresh |-> IsRateFresh(stamp(reverse), TTL(setting), now)]))
       ELSE IF rate_info # None /\ EntryTruthy(direct)
       THEN out(Returned(
               [from_code |-> from_code, to_code |-> to_code,
                rate |-> Frac(RateOf(direct), 1),
                reverse_rate |-> ReverseOf(RateOf(direct)),
                updated_at |-> stamp(direct), source |-> label(direct),
                fresh |-> IsRateFresh(stamp(direct), TTL(setting), now)]))
       ELSE IF rate # None /\ rate[1].n # 0
       THEN out(Returned(
               [from_code |-> from_code, to_code |-> to_code, rate |-> rate[1],
                reverse_rate |-> <<Frac(rate[1].d, rate[1].n)>>,
                updated_at |-> doc.last_refresh, source |-> "calculated",
                fresh |-> CalculatedFresh(doc.last_refresh, TTL(setting), now)]))
       ELSE out(ApiRequestError(Unavailable(from_code, to_code)))

\* get_rate, lines 306-374, for two different registered codes: the outcome
\* and the number of get_rates calls.
Resolve(file, from_code, to_code, now, setting) ==
    LET rates_data == GetRatesCache(file)
        doc == rates_data.val
        pairs == doc.pairs
        rate_info == PairsGet(pairs, <<from_code, to_code>>)
        reverse_info == PairsGet(pairs, <<to_code, from_code>>)
        direct == rate_info[1]
        reverse == reverse_info[1]
        stamp(e) == IF IsDict(e) THEN e.updated_at ELSE None
        label(e) == IF IsDict(e) THEN e.source ELSE "cache"
        inverse == Div(1, RateOf(reverse))
        rate == CalculateRate(from_code, to_code, pairs)
        out(res) == [res |-> res, reads |-> 1]
    IN IF rates_data.raised THEN out(rates_data)
       ELSE IF doc.t # "dict" THEN out(Raised("AttributeError"))
       ELSE IF rate_info # None /\ EntryTruthy(direct)
       THEN out(Returned(
               [from_code |-> from_code, to_code |-> to_code,
                rate |-> Frac(RateOf(direct), 1),
                reverse_rate |-> ReverseOf(RateOf(direct)),
                updated_at |-> stamp(direct), source |-> label(direct),
                fresh |-> IsRateFresh(stamp(direct), TTL(setting), now)]))
       ELSE IF reverse_info # None /\ EntryTruthy(reverse)
                /\ Invertible(RateOf(reverse))
       THEN IF inverse.raised THEN out(inverse)
            ELSE out(Returned(
                    [from_code |-> from_code, to_code |-> to_code,
                     rate |-> inverse.val,
                     reverse_rate |-> <<Frac(RateOf(reverse), 1)>>,
                     updated_at |-> stamp(reverse), source |-> label(reverse),
                     fresh |-> IsRateFresh(stamp(reverse), TTL(setting), now)]))
       ELSE IF rate # None /\ rate[1].n # 0
       THEN out(Returned(
               [from_code |-> from_code, to_code |-> to_code, rate |-> rate[1],
                reverse_rate |-> <<Frac(rate[1].d, rate[1].n)>>,
                updated_at |-> doc.last_refresh, source |-> "calculated",
                fresh |-> CalculatedFresh(doc.last_refresh, TTL(setting), now)]))
       ELSE out(ApiRequestError(Unavailable(from_code, to_code)))

\* Mutant: the codes are validated but not looked up in the registry; a
\* code's pair-key string is then the code itself.
CheckedCodes_NoRegistry(from_arg, to_arg) ==
    LET v1 == ValidateCurrencyCode(from_arg)
        v2 == ValidateCurrencyCode(to_arg)
        name(c) == IF GetCurrency(c).raised THEN "???" ELSE GetCurrency(c).val
    IN IF v1.raised THEN v1
       ELSE IF v2.raised THEN v2
       ELSE Returned(<<name(v1.val), name(v2.val)>>)

\* get_rate, lines 288-293: both codes validated, then both looked up in the
\* registry; the two codes as they appear in pair keys, or the exception.
CheckedCodes(from_arg, to_arg) ==
    LET v1 == ValidateCurrencyCode(from_arg)
        v2 == ValidateCurrencyCode(to_arg)
        c1 == GetCurrency(v1.val)
        c2 == GetCurrency(v2.val)
    IN IF v1.raised THEN v1
       ELSE IF v2.raised THEN v2
       ELSE IF c1.raised THEN c1
       ELSE IF c2.raised THEN c2
       ELSE Returned(<<c1.val, c2.val>>)

\* get_rate, lines 297-304
Identity(code, now) ==
    [from_code |-> code, to_code |-> code, rate |-> Frac(1, 1),
     reverse_rate |-> <<Frac(1, 1)>>, updated_at |-> <<now>>, fresh |-> TRUE]

\* Mutant: the cache is read before the identity test.
GetRate_ReadFirst(file, from_arg, to_arg, now, setting) ==
    LET codes == CheckedCodes(from_arg, to_arg)
        rates_data == GetRatesCache(file)
    IN IF codes.raised THEN [res |-> codes, reads |-> 0]
       ELSE IF rates_data.raised THEN [res |-> rates_data, reads |-> 1]
       ELSE IF codes.val[1] = codes.val[2]
       THEN [res |-> Returned(Identity(codes.val[1], now)), reads |-> 1]
       ELSE Resolve(file, codes.val[1], codes.val[2], now, setting)

\* RatesService.get_rate (usecases.py:284-374): the outcome and the number
\* of get_rates calls made; log_action re-raises what the method raises.
GetRate(file, from_arg, to_arg, now, setting) ==
    LET codes == CheckedCodes(from_arg, to_arg)
    IN IF codes.raised THEN [res |-> codes, reads |-> 0]
       ELSE IF codes.val[1] = codes.val[2]
       THEN [res |-> Returned(Identity(codes.val[1], now)), reads |-> 0]
       ELSE Resolve(file, codes.val[1], codes.val[2], now, setting)

\* ---- the calls made and the caches they run against
EUR_BTC == <<"EUR", "BTC">>
ResolverKeys == {BTC_USD, EUR_USD, EUR_BTC}

\* The label the writer of a pair stores with it.
SourceOf(key) == IF key[1] = "BTC" THEN "CoinGecko" ELSE "ExchangeRate-API"

\* What the cache can hold for a key: a dict with any rate from 0, written at
\* second 0 or without a timestamp, a dict with a timestamp that does not
\* parse, or a bare number.
EntriesFor(key) ==
    {[rate |-> r, updated_at |-> u, source |-> SourceOf(key)] :
        r \in 0..MaxRate, u \in {None, <<0>>}}
    \cup {[rate |-> 1, updated_at |-> BadStamp, source |-> SourceOf(key)]}
    \cup {Bare(0), Bare(MaxRate)}

\* The cache documents: any subset of the keys, each with one of its entries.
ResolverDocs ==
    UNION {{PyDoc(f, IF S = {} THEN None ELSE <<0>>, "ParserService") :
              f \in {g \in [S -> UNION {EntriesFor(k) : k \in S}] :
                        \A k \in S : g[k] \in EntriesFor(k)}} :
           S \in SUBSET ResolverKeys}

\* rates.json when get_rate is called: a document, or a file that is
\* missing, unreadable or not a document.
ResolverFiles ==
    {JsonFile(d) : d \in ResolverDocs}
    \cup {Missing, BadBytes, Garbage, JsonFile(PyNone), JsonFile(PyList(<<>>))}

\* The code arguments: registered codes in upper and lower case, a code
\* outside the registry, and blank text.
CodeArgs ==
    { <<"U","S","D">>, <<"u","s","d">>, <<"E","U","R">>, <<" ","b","t","c">>,
      <<"X","X","X">>, <<" ">> }

\* The rates_ttl_seconds setting: absent, or a number of seconds.
TTLSettings == {None, <<2>>}

\* The clock readings of a call: around the TTL after second 0.
ReadingsAround(setting) == {TTL(setting) - 1, TTL(setting), TTL(setting) + 1}

\* The default_base_currency setting as _load_defaults sets it
\* (settings.py:58).
DefaultBase == "USD"

\* One call against the file drawn at the start, with the settings
\* rates_ttl_seconds = setting and default_base_currency = base.
GetRateCall(from_arg, to_arg, now, setting, base) ==
    /\ ~grcall.made
    /\ clock' = now
    /\ grcall' = [made |-> TRUE, from_arg |-> from_arg, to_arg |-> to_arg,
                  now |-> now, setting |-> setting, base |-> base,
                  out |-> GetRate(ratesFile, from_arg, to_arg, now, setting)]
    /\ UNCHANGED notResolver

NextResolver ==
    \E from_arg \in CodeArgs, to_arg \in CodeArgs, setting \in TTLSettings :
        \E now \in ReadingsAround(setting) :
            GetRateCall(from_arg, to_arg, now, setting, DefaultBase)

InitResolverCalls ==
    /\ clock = 0
    /\ ratesFile \in ResolverFiles
    /\ historyFile = FreshStore[2]
    /\ InitUpdater
    /\ InitWriter
    /\ InitHistoryCalls
    /\ InitCallers
    /\ InitScheduler(FALSE)
    /\ InitResolver
    /\ InitRoundTrip
    /\ InitWallet
    /\ InitCommand
    /\ InitClients

SpecResolver == InitResolverCalls /\ [][NextResolver]_vars

\* ---- calls against caches that hold a pair, its reverse and pivot legs
BTC_EUR == <<"BTC", "EUR">>
USD_EUR == <<"USD", "EUR">>
OrderKeys == {BTC_EUR, EUR_BTC, BTC_USD, EUR_USD, USD_EUR}

\* The cache documents: any subset of the keys, each a record written at
\* second 0 with any rate from 0.
OrderDocs ==
    UNION {{PyDoc([k \in S |-> [rate |-> f[k], updated_at |-> <<0>>,
                                source |-> SourceOf(k)]],
                  <<0>>, "ParserService") :
              f \in [S -> 0..MaxRate]} : S \in SUBSET OrderKeys}

OrderArgs == {<<"B","T","C">>, <<"E","U","R">>, <<"U","S","D">>}

\* The default_base_currency setting: the default, or VALUTATRADE_BASE_CURRENCY
\* (settings.py:72).
BaseSettings == {DefaultBase, "EUR"}

NextOrder ==
    \E from_arg \in OrderArgs, to_arg \in OrderArgs, base \in BaseSettings :
        GetRateCall(from_arg, to_arg, 1, None, base)

InitOrderCalls ==
    /\ clock = 0
    /\ ratesFile \in {JsonFile(d) : d \in OrderDocs}
    /\ historyFile = FreshStore[2]
    /\ InitUpdater
    /\ InitWriter
    /\ InitHistoryCalls
    /\ InitCallers
    /\ InitScheduler(FALSE)
    /\ InitResolver
    /\ InitRoundTrip
    /\ InitWallet
    /\ InitCommand
    /\ InitClients

SpecOrder == InitOrderCalls /\ [][NextOrder]_vars

\* ======================================================================
\* The source clients: CoinGeckoClient and ExchangeRateApiClient
\* (api_clients.py:46-223, config.py:37-92)
\* ======================================================================
\* ParserConfig.FIAT_CURRENCIES and CRYPTO_ID_MAP (config.py:40-54)
FIAT_CURRENCIES == <<"EUR", "GBP", "RUB", "JPY", "CNY", "CHF", "CAD", "AUD">>
CRYPTO_ID_MAP ==
    <<<<"BTC", "bitcoin">>, <<"ETH", "ethereum">>, <<"SOL", "solana">>,
      <<"XRP", "ripple">>, <<"ADA", "cardano">>, <<"DOGE", "dogecoin">>,
      <<"LTC", "litecoin">>>>

\* ParserConfig.get_crypto_code (config.py:87-92): the code of the first
\* entry with the id, None when there is none.
get_crypto_code(coingecko_id) ==
    LET hits == SelectSeq(CRYPTO_ID_MAP, LAMBDA e : e[2] = coingecko_id)
    IN IF hits = <<>> THEN None ELSE <<hits[1][1]>>

\* Values response.json() can return: a number, null, a string, an object
\* (its items in document order), a list.
Num(n) == [t |-> "num", n |-> n]
Str(s) == [t |-> "str", s |-> s]
Obj(items) == [t |-> "dict", items |-> items]

\* key in d, d[key] and d.get(key, default) of an object.
HasKey(d, key) == \E j \in DOMAIN d.items : d.items[j][1] = key
ValueAt(d, key) == d.items[CHOOSE j \in DOMAIN d.items : d.items[j][1] = key][2]
GetOr(d, key, default) == IF HasKey(d, key) THEN ValueAt(d, key) ELSE default

\* float(x): the number, TypeError for null and containers, ValueError for
\* a string that is not a number.
Float(x) ==
    IF x.t = "num" THEN Returned(x.n)
    ELSE IF x.t = "str" THEN Raised("ValueError")
    ELSE Raised("TypeError")

\* rates[pair] = value
WithRate(rates, pair, value) ==
    [k \in DOMAIN rates \cup {pair} |-> IF k = pair THEN value ELSE rates[k]]

\* Mutant: the pair is emitted whatever the provider's value.
EmitsFiat_AnyValue(usd_to_fiat) == TRUE

\* ExchangeRateApiClient._parse_response line 203: if usd_to_fiat != 0
EmitsFiat(usd_to_fiat) == usd_to_fiat # 0

\* ExchangeRateApiClient._parse_response lines 196-205, from the i-th
\* tracked code on: `code in api_rates` raises TypeError on null, float()
\* raises on what is not a number, 1.0 / usd_to_fiat is stored under
\* f"{code}_{base}".
RECURSIVE ParseFiat(_, _, _, _)
ParseFiat(api_rates, base, i, rates) ==
    IF i > Len(FIAT_CURRENCIES) THEN Returned(rates)
    ELSE IF api_rates.t # "dict" THEN Raised("TypeError")
    ELSE LET code == FIAT_CURRENCIES[i]
             usd_to_fiat == Float(ValueAt(api_rates, code))
         IN IF ~(HasKey(api_rates, code) /\ code # base)
            THEN ParseFiat(api_rates, base, i + 1, rates)
            ELSE IF usd_to_fiat.raised THEN usd_to_fiat
            ELSE IF EmitsFiat(usd_to_fiat.val)
            THEN ParseFiat(api_rates, base, i + 1,
                           WithRate(rates, <<code, base>>, Frac(1, usd_to_fiat.val)))
            ELSE ParseFiat(api_rates, base, i + 1, rates)

\* ExchangeRateApiClient._parse_response, lines 188-209
ParseExchangeRate(data, base) ==
    ParseFiat(GetOr(data, "conversion_rates", GetOr(data, "rates", Obj(<<>>))),
              base, 1, <<>>)

\* str.lower() of the base currency (api_clients.py:96)
LowerCode(code) == IF code = "USD" THEN "usd" ELSE "eur"

\* CoinGeckoClient._parse_response lines 98-102, from the i-th item of the
\* payload on: `base_currency in prices` raises TypeError when prices is a
\* number or null.
RECURSIVE ParseCrypto(_, _, _, _)
ParseCrypto(data, base, i, rates) ==
    IF i > Len(data.items) THEN Returned(rates)
    ELSE LET code == get_crypto_code(data.items[i][1])
             prices == data.items[i][2]
             price == Float(ValueAt(prices, LowerCode(base)))
         IN IF code = None THEN ParseCrypto(data, base, i + 1, rates)
            ELSE IF prices.t \notin {"dict", "str"} THEN Raised("TypeError")
            ELSE IF prices.t = "str" \/ ~HasKey(prices, LowerCode(base))
            THEN ParseCrypto(data, base, i + 1, rates)
            ELSE IF price.raised THEN price
            ELSE ParseCrypto(data, base, i + 1,
                             WithRate(rates, <<code[1], base>>, Frac(price.val, 1)))

\* CoinGeckoClient._parse_response, lines 91-109: data.items() raises
\* AttributeError on what is not an object.
ParseCoinGecko(data, base) ==
    IF data.t # "dict" THEN Raised("AttributeError")
    ELSE ParseCrypto(data, base, 1, <<>>)

\* _get_mock_rates of the two clients (lines 111-121, 211-222).
MockCrypto ==
    (<<"BTC", "USD">> :> Frac(5933721, 100)) @@ (<<"ETH", "USD">> :> Frac(3720, 1))
    @@ (<<"SOL", "USD">> :> Frac(14512, 100)) @@ (<<"XRP", "USD">> :> Frac(52, 100))
    @@ (<<"ADA", "USD">> :> Frac(45, 100)) @@ (<<"DOGE", "USD">> :> Frac(82, 1000))
    @@ (<<"LTC", "USD">> :> Frac(7250, 100))
MockFiat ==
    (<<"EUR", "USD">> :> Frac(10786, 10000)) @@ (<<"GBP", "USD">> :> Frac(12650, 10000))
    @@ (<<"RUB", "USD">> :> Frac(1016, 100000)) @@ (<<"JPY", "USD">> :> Frac(67, 10000))
    @@ (<<"CNY", "USD">> :> Frac(1380, 10000)) @@ (<<"CHF", "USD">> :> Frac(11320, 10000))
    @@ (<<"CAD", "USD">> :> Frac(7420, 10000)) @@ (<<"AUD", "USD">> :> Frac(6530, 10000))

\* What requests.get did: raised Timeout, ConnectionError or another
\* RequestException, or returned a response with a status and a body; the
\* body is JSON (`data`) or is not.
Transport(kind) == [kind |-> kind]
Response(status, body) == [kind |-> "response", status |-> status, body |-> body]
NotJson == [json |-> FALSE]
Json(data) == [json |-> TRUE, data |-> data]

\* The except clauses of fetch_rates (lines 84-89, 181-186) for what
\* requests.get raised.
TransportError(name, kind) ==
    IF kind = "Timeout" THEN ApiRequestError(<<"timeout requesting ", name>>)
    ELSE IF kind = "ConnectionError"
    THEN ApiRequestError(<<"connection error with ", name>>)
    ELSE ApiRequestError(<<"request error with ", name, ": ", kind>>)

\* response.json() on a body that is not JSON raises JSONDecodeError: a
\* RequestException in requests from 2.27 on, which the last except clause
\* turns into ApiRequestError, and a plain ValueError before, which escapes.
JsonError(name, caught) ==
    IF caught THEN TransportError(name, "JSONDecodeError") ELSE Raised("JSONDecodeError")

\* fetch_rates lines 76-80 and 166-170: the reason for a status that is not
\* 200.
StatusError(name, status) ==
    IF status = 429 THEN ApiRequestError(<<"rate limit of ", name, " exceeded (429)">>)
    ELSE ApiRequestError(<<name, " returned status ", status>>)

\* CoinGeckoClient.fetch_rates, lines 60-89
FetchCoinGecko(env, resp) ==
    IF ~env.requests THEN Returned(MockCrypto)
    ELSE IF resp.kind # "response" THEN TransportError("CoinGecko", resp.kind)
    ELSE IF resp.status # 200 THEN StatusError("CoinGecko", resp.status)
    ELSE IF ~resp.body.json THEN JsonError("CoinGecko", env.jsonErrorCaught)
    ELSE ParseCoinGecko(resp.body.data, env.base)

\* ExchangeRateApiClient.fetch_rates, lines 138-186: data.get raises
\* AttributeError on what is not an object.
FetchExchangeRate(env, resp) ==
    IF ~env.requests \/ ~env.key THEN Returned(MockFiat)
    ELSE IF resp.kind # "response" THEN TransportError("ExchangeRate-API", resp.kind)
    ELSE IF resp.status = 401
    THEN ApiRequestError(<<"invalid API key for ", "ExchangeRate-API">>)
    ELSE IF resp.status # 200 THEN StatusError("ExchangeRate-API", resp.status)
    ELSE IF ~resp.body.json THEN JsonError("ExchangeRate-API", env.jsonErrorCaught)
    ELSE LET data == resp.body.data
         IN IF data.t # "dict" THEN Raised("AttributeError")
            ELSE IF GetOr(data, "result", PyNone) # Str("success")
            THEN ApiRequestError(<<"ExchangeRate-API", " returned an error: ",
                                   GetOr(data, "error-type", Str("unknown")).s>>)
            ELSE ParseExchangeRate(data, env.base)

\* One fetch_rates call of a client.
FetchRates(client, env, resp) ==
    /\ ~fcall.made
    /\ fcall' = [made |-> TRUE, client |-> client, env |-> env, resp |-> resp,
                 out |-> IF client = "CoinGecko" THEN FetchCoinGecko(env, resp)
                         ELSE FetchExchangeRate(env, resp)]
    /\ UNCHANGED notClients

\* The configurations: requests importable or not, an API key set or not,
\* the base currency, the version of requests.
ClientEnvs ==
    [requests : BOOLEAN, key : BOOLEAN, base : {"USD", "EUR"},
     jsonErrorCaught : BOOLEAN]

\* What a provider can put where a number is expected.
PayloadValues == {Num(v) : v \in 0..MaxRate} \cup {PyNone, Str("n/a")}

\* The objects with some of the keys, in the keys' order, and any of the
\* values.
ObjectsOver(keys, values) ==
    UNION {{Obj([j \in 1..Len(SelectSeq(keys, LAMBDA k : k \in S)) |->
                   <<SelectSeq(keys, LAMBDA k : k \in S)[j],
                     f[SelectSeq(keys, LAMBDA k : k \in S)[j]]>>]) :
               f \in [S -> values]} : S \in SUBSET Range(keys)}

\* Bodies of ExchangeRate-API: a list, an error report, and successes with
\* the rates under either name, absent or null.
FiatPayloads == ObjectsOver(<<"EUR", "GBP", "USD", "XXX">>, PayloadValues) \cup {PyNone}
ExchangeRateBodies ==
    {PyList(<<>>),
     Obj(<<<<"result", Str("error")>>, <<"error-type", Str("invalid-key")>>>>),
     Obj(<<<<"result", Str("success")>>>>)}
    \cup {Obj(<<<<"result", Str("success")>>, <<name, api_rates>>>>) :
             name \in {"conversion_rates", "rates"}, api_rates \in FiatPayloads}

\* Bodies of CoinGecko: a list, and objects of tracked and untracked ids
\* whose prices are an object, a number or null.
PricePayloads == ObjectsOver(<<"usd", "eur">>, PayloadValues) \cup {Num(1), PyNone}
CoinGeckoBodies ==
    {PyList(<<>>)} \cup ObjectsOver(<<"bitcoin", "tether">>, PricePayloads)

Statuses == {200, 401, 429, 500}
ResponsesOf(bodies) ==
    {Transport(k) : k \in {"Timeout", "ConnectionError", "TooManyRedirects"}}
    \cup {Response(s, NotJson) : s \in Statuses}
    \cup {Response(200, Json(d)) : d \in bodies}

NextClients ==
    \/ /\ ~fcall.made
       /\ \E env \in ClientEnvs, resp \in ResponsesOf(CoinGeckoBodies) :
             FetchRates("CoinGecko", env, resp)
    \/ /\ ~fcall.made
       /\ \E env \in ClientEnvs, resp \in ResponsesOf(ExchangeRateBodies) :
             FetchRates("ExchangeRate-API", env, resp)

SpecClients == Init /\ [][NextClients]_vars

\* ======================================================================
\* DatabaseManager.save_rates / get_rates and RatesStorage._write_json /
\* get_rates_cache on the text of the file (database.py:65-90, 183-216;
\* storage.py:46-78)
\* ======================================================================
\* ------------------------------------------------------- Python values
\* A str is its characters; a float is the shortest decimal m * 10^e that
\* repr() prints for it, m without trailing zero; nan is a float of its own.
JStr(chars) == [py |-> "str", chars |-> chars]
JFloat(m, e) == [py |-> "float", m |-> m, e |-> e]
JNaN == [py |-> "nan"]
JInt(n) == [py |-> "int", n |-> n]
JNull == [py |-> "None"]
JDatetime(iso) == [py |-> "datetime", iso |-> iso]
\* A dict is its items <<key, value>> in insertion order.
JDict(items) == [py |-> "dict", items |-> items]

\* Characters: the line feed, a letter outside ASCII, and a lone surrogate,
\* which a str can hold and UTF-8 cannot encode.
LF == "\n"
EAcute == "U+00E9"
Surrogate == "U+D800"
DigitChars == <<"0", "1", "2", "3", "4", "5", "6", "7", "8", "9">>
Chars_pairs == <<"p", "a", "i", "r", "s">>
Chars_last_refresh == <<"l", "a", "s", "t", "_", "r", "e", "f", "r", "e", "s", "h">>
Chars_rate == <<"r", "a", "t", "e">>
Chars_updated_at == <<"u", "p", "d", "a", "t", "e", "d", "_", "a", "t">>
Chars_source == <<"s", "o", "u", "r", "c", "e">>

\* ---------------------------------------------------------- json.dump
\* str(n) of a non-negative int.
RECURSIVE Digits(_)
Digits(n) == IF n < 10 THEN <<DigitChars[n + 1]>>
             ELSE Digits(n \div 10) \o <<DigitChars[(n % 10) + 1]>>

Zeros(n) == [i \in 1..n |-> "0"]

\* float.__repr__: decpt is the place of the decimal point in the digits;
\* the exponent form is used when decpt <= -4 or decpt > 16, the exponent
\* has a sign and two digits at least, and ".0" is added to whole numbers.
FloatRepr(m, e) ==
    LET d == Digits(m)
        n == Len(d)
        decpt == n + e
        x == decpt - 1
        xd == Digits(IF x < 0 THEN 0 - x ELSE x)
    IN IF m = 0 THEN <<"0", ".", "0">>
       ELSE IF decpt <= -4 \/ decpt > 16
       THEN <<d[1]>> \o (IF n > 1 THEN <<".">> \o SubSeq(d, 2, n) ELSE <<>>)
            \o <<"e", IF x < 0 THEN "-" ELSE "+">>
            \o (IF Len(xd) < 2 THEN <<"0">> ELSE <<>>) \o xd
       ELSE IF decpt <= 0 THEN <<"0", ".">> \o Zeros(0 - decpt) \o d
       ELSE IF decpt >= n THEN d \o Zeros(decpt - n) \o <<".", "0">>
       ELSE SubSeq(d, 1, decpt) \o <<".">> \o SubSeq(d, decpt + 1, n)

\* Mutant: a character is written as it is, never escaped.
Escape_Raw(c) == <<c>>

\* json.encoder.py_encode_basestring (ensure_ascii=False): the quote, the
\* backslash and the line feed are escaped, other characters are written
\* as they are.
Escape(c) ==
    IF c = "\"" THEN <<"\\", "\"">>
    ELSE IF c = "\\" THEN <<"\\", "\\">>
    ELSE IF c = LF THEN <<"\\", "n">>
    ELSE <<c>>

RECURSIVE Escaped(_)
Escaped(chars) == IF chars = <<>> THEN <<>>
                  ELSE Escape(Head(chars)) \o Escaped(Tail(chars))

StrText(chars) == <<"\"">> \o Escaped(chars) \o <<"\"">>

\* str(datetime): isoformat with a space for the "T".
DatetimeStr(iso) == [i \in DOMAIN iso |-> IF iso[i] = "T" THEN " " ELSE iso[i]]

\* A dict key as json.dump writes it: a str as it is, an int through str().
KeyText(k) == IF k.py = "str" THEN StrText(k.chars) ELSE StrText(Digits(k.n))

\* The line break and indentation of nesting level `level` (indent=2).
Indent(level) == <<LF>> \o [i \in 1..(2 * level) |-> " "]

\* json.dumps(data, ensure_ascii=False, indent=2, default=str) at a nesting
\* level; a value json does not know goes through default=str.
RECURSIVE Dumps(_, _)
RECURSIVE DumpItems(_, _)
DumpItems(items, level) ==
    IF items = <<>> THEN <<>>
    ELSE Indent(level) \o KeyText(Head(items)[1]) \o <<":", " ">>
         \o Dumps(Head(items)[2], level)
         \o (IF Len(items) > 1 THEN <<",">> ELSE <<>>)
         \o DumpItems(Tail(items), level)
Dumps(v, level) ==
    IF v.py = "str" THEN StrText(v.chars)
    ELSE IF v.py = "float" THEN FloatRepr(v.m, v.e)
    ELSE IF v.py = "nan" THEN <<"N", "a", "N">>
    ELSE IF v.py = "int" THEN Digits(v.n)
    ELSE IF v.py = "None" THEN <<"n", "u", "l", "l">>
    ELSE IF v.py = "datetime" THEN StrText(DatetimeStr(v.iso))
    ELSE IF v.items = <<>> THEN <<"{", "}">>
    ELSE <<"{">> \o DumpItems(v.items, level + 1) \o Indent(level) \o <<"}">>

\* The text file is opened with encoding="utf-8": a lone surrogate in the
\* text makes the write raise UnicodeEncodeError.
Encodable(text) == \A i \in DOMAIN text : text[i] # Surrogate

\* ---------------------------------------------------------- json.load
\* The character at index i of text s, "" past its end.
At(s, i) == IF i \in DOMAIN s THEN s[i] ELSE ""
IsDigit(c) == \E d \in DOMAIN DigitChars : DigitChars[d] = c
DigitVal(c) == (CHOOSE d \in DOMAIN DigitChars : DigitChars[d] = c) - 1

Parsed(v, next) == [ok |-> TRUE, val |-> v, next |-> next]
NoParse == [ok |-> FALSE]

\* The index after the white space that starts at i.
RECURSIVE SkipWs(_, _)
SkipWs(s, i) == IF At(s, i) \in {" ", LF} THEN SkipWs(s, i + 1) ELSE i

\* The index after the digits that start at i.
RECURSIVE SkipDigits(_, _)
SkipDigits(s, i) == IF IsDigit(At(s, i)) THEN SkipDigits(s, i + 1) ELSE i

\* int() of a text of digits.
RECURSIVE NatOf(_)
NatOf(d) == IF d = <<>> THEN 0
            ELSE 10 * NatOf(SubSeq(d, 1, Len(d) - 1)) + DigitVal(d[Len(d)])

\* The float m * 10^e as the decimal without trailing zero.
RECURSIVE Shortest(_, _)
Shortest(m, e) == IF m = 0 THEN JFloat(0, 0)
                  ELSE IF m % 10 = 0 THEN Shortest(m \div 10, e + 1)
                  ELSE JFloat(m, e)

\* json.scanner NUMBER_RE: digits, an optional fraction, an optional
\* exponent; int() of the digits when there is neither, else float().
ParseNumber(s, i) ==
    LET i1 == SkipDigits(s, i)
        hasFrac == At(s, i1) = "." /\ IsDigit(At(s, i1 + 1))
        i2 == IF hasFrac THEN SkipDigits(s, i1 + 1) ELSE i1
        signed == At(s, i2 + 1) \in {"+", "-"}
        x1 == IF signed THEN i2 + 2 ELSE i2 + 1
        hasExp == At(s, i2) = "e" /\ IsDigit(At(s, x1))
        i3 == IF hasExp THEN SkipDigits(s, x1) ELSE i2
        whole == SubSeq(s, i, i1 - 1)
        frac == IF hasFrac THEN SubSeq(s, i1 + 1, i2 - 1) ELSE <<>>
        x == IF hasExp THEN NatOf(SubSeq(s, x1, i3 - 1)) ELSE 0
        expo == IF At(s, i2 + 1) = "-" THEN 0 - x ELSE x
    IN IF hasFrac \/ hasExp
       THEN Parsed(Shortest(NatOf(whole \o frac), expo - Len(frac)), i3)
       ELSE Parsed(JInt(NatOf(whole)), i3)

\* json.decoder.py_scanstring from the character after the opening quote:
\* the characters up to the closing quote, escapes undone; a raw control
\* character or the end of the text is a JSONDecodeError.
RECURSIVE ScanString(_, _, _)
ScanString(s, i, acc) ==
    LET c == At(s, i)
        n == At(s, i + 1)
    IN IF c = "\"" THEN Parsed(JStr(acc), i + 1)
       ELSE IF c = "" \/ c = LF THEN NoParse
       ELSE IF c = "\\"
       THEN IF n \in {"\"", "\\"} THEN ScanString(s, i + 2, Append(acc, n))
            ELSE IF n = "n" THEN ScanString(s, i + 2, Append(acc, LF))
            ELSE NoParse
       ELSE ScanString(s, i + 1, Append(acc, c))

\* dict(pairs): a key met again keeps its place and takes the new value.
SetItem(items, k, v) ==
    IF \E j \in DOMAIN items : items[j][1] = k
    THEN [j \in DOMAIN items |-> IF items[j][1] = k THEN <<k, v>> ELSE items[j]]
    ELSE Append(items, <<k, v>>)

\* json.scanner / json.decoder.JSONObject: the value that starts at i.
RECURSIVE ScanValue(_, _)
RECURSIVE ScanItems(_, _, _)
ScanItems(s, i, acc) ==
    LET k == IF At(s, i) = "\"" THEN ScanString(s, i + 1, <<>>) ELSE NoParse
        colon == IF k.ok THEN SkipWs(s, k.next) ELSE i
        v == IF k.ok /\ At(s, colon) = ":"
             THEN ScanValue(s, SkipWs(s, colon + 1)) ELSE NoParse
        end == IF v.ok THEN SkipWs(s, v.next) ELSE i
        items == IF v.ok THEN SetItem(acc, k.val, v.val) ELSE acc
    IN IF ~v.ok THEN NoParse
       ELSE IF At(s, end) = "}" THEN Parsed(JDict(items), end + 1)
       ELSE IF At(s, end) = "," THEN ScanItems(s, SkipWs(s, end + 1), items)
       ELSE NoParse
ScanValue(s, i) ==
    LET c == At(s, i)
        open == SkipWs(s, i + 1)
    IN IF c = "\"" THEN ScanString(s, i + 1, <<>>)
       ELSE IF c = "{"
       THEN IF At(s, open) = "}" THEN Parsed(JDict(<<>>), open + 1)
            ELSE ScanItems(s, open, <<>>)
       ELSE IF SubSeq(s, i, i + 3) = <<"n", "u", "l", "l">> THEN Parsed(JNull, i + 4)
       ELSE IF SubSeq(s, i, i + 2) = <<"N", "a", "N">> THEN Parsed(JNaN, i + 3)
       ELSE IF IsDigit(c) THEN ParseNumber(s, i)
       ELSE NoParse

\* json.load: one value, white space around it, nothing after it.
Loads(text) ==
    LET v == ScanValue(text, SkipWs(text, 1))
    IN IF v.ok /\ SkipWs(text, v.next) = Len(text) + 1
       THEN Returned(v.val) ELSE Raised("JSONDecodeError")

\* ------------------------------------------------- the file and the calls
\* {"pairs": {}, "last_refresh": None}
EmptyCache == JDict(<<<<JStr(Chars_pairs), JDict(<<>>)>>,
                      <<JStr(Chars_last_refresh), JNull>>>>)

\* _write_json, storage.py:54-68 / database.py:73-90: the text goes to a
\* temporary file that replaces the file; when the write raises, the
\* temporary file is removed and the file is as it was.
WriteText(file, data, writeFails) ==
    LET text == Dumps(data, 0)
    IN IF ~Encodable(text) THEN [file |-> file, raised |-> "UnicodeEncodeError"]
       ELSE IF writeFails THEN [file |-> file, raised |-> "OSError"]
       ELSE [file |-> <<text>>, raised |-> ""]

\* _read_json and get_rates / get_rates_cache: no file, or a text that is
\* not JSON, reads as the empty cache.
GetRates(file) ==
    IF file = None THEN EmptyCache
    ELSE LET r == Loads(file[1])
         IN IF r.raised THEN EmptyCache ELSE r.val

\* DatabaseManager.save_rates(rates), database.py:213-216
SaveRates(writeFails) ==
    LET w == WriteText(rtrip.file, rtrip.rates, writeFails)
    IN /\ rtrip.pc = "idle"
       /\ rtrip' = [rtrip EXCEPT !.pc = "saved", !.raised = w.raised,
                                 !.file = w.file, !.read = None]
       /\ UNCHANGED notRoundTrip

\* DatabaseManager.get_rates(), database.py:183-189
ReadRates ==
    /\ rtrip.read = None
    /\ rtrip' = [rtrip EXCEPT !.read = <<GetRates(rtrip.file)>>]
    /\ UNCHANGED notRoundTrip

\* ------------------------------------------------------ cache documents
\* Pair keys, timestamps and source labels; a label may hold any character.
Key_B_U == <<"B", "_", "U">>
Key_E_U == <<"E", "_", "U">>
StampChars == <<"2", "0", "T", "0", "9", ":", "3", "0", ".", "5">>
Labels == {<<"C", "G">>, <<"a", "\"", "\\", "b">>, <<EAcute, LF, "{", ",">>,
           <<Surrogate>>}

\* The rates 0.5, 1.0, 120.0, 2.5e-07, 1e+16 and 0.0001.
FloatRates == {JFloat(5, -1), JFloat(1, 0), JFloat(12, 1), JFloat(25, -8),
               JFloat(1, 16), JFloat(1, -4)}

PairEntry(rate, updated_at, source) ==
    JDict(<<<<JStr(Chars_rate), rate>>, <<JStr(Chars_updated_at), updated_at>>,
            <<JStr(Chars_source), source>>>>)

\* Entries as the services write them, and entries a caller of save_rates
\* can pass as well: a rate that is an int or nan, a datetime object for
\* the timestamp.
RoundTripEntries ==
    {PairEntry(r, u, JStr(l)) :
        r \in FloatRates \cup {JInt(2), JNaN},
        u \in {JStr(StampChars), JDatetime(StampChars)},
        l \in Labels}

\* Documents of no pair, of one pair, of two pairs, and of two pairs under
\* the keys 1 and "1".
CacheDoc(items) ==
    JDict(<<<<JStr(Chars_pairs), JDict(items)>>,
            <<JStr(Chars_last_refresh), JStr(StampChars)>>>>)
RoundTripDocs ==
    {CacheDoc(<<>>)}
    \cup {CacheDoc(<<<<JStr(Key_B_U), a>>>>) : a \in RoundTripEntries}
    \cup {CacheDoc(<<<<JStr(Key_E_U), PairEntry(JFloat(1, 0), JStr(StampChars), JStr(<<"C", "G">>))>>,
                     <<JStr(Key_B_U), a>>>>) : a \in RoundTripEntries}
    \cup {CacheDoc(<<<<JInt(1), a>>, <<JStr(<<"1">>), a>>>>) :
             a \in {PairEntry(JFloat(5, -1), JStr(StampChars), JStr(<<"C", "G">>))}}

NextRoundTrip ==
    \/ \E writeFails \in BOOLEAN : SaveRates(writeFails)
    \/ ReadRates

\* A caller about to save any of the documents.
InitRoundTripCalls ==
    /\ clock = 0
    /\ ratesFile = FreshStore[1]
    /\ historyFile = FreshStore[2]
    /\ InitUpdater
    /\ InitWriter
    /\ InitHistoryCalls
    /\ InitCallers
    /\ InitScheduler(FALSE)
    /\ InitResolver
    /\ \E rates \in RoundTripDocs : rtrip = BeforeSave(rates)
    /\ InitWallet
    /\ InitCommand
    /\ InitClients

SpecRoundTrip == InitRoundTripCalls /\ [][NextRoundTrip]_vars

\* ======================================================================
\* Properties of RatesUpdater.run_update (SpecUpdater)
\* ======================================================================
\* The fetch_rates calls of the cycle that raised, in call order.
FailedFetches == SelectSeq(fetched, LAMBDA f : f.kind # "ok")
\* The pair keys returned by the clients that did not raise.
MergedKeys == UNION {fetched[j].keys : j \in DOMAIN fetched}
\* The indices of the selected clients, in client order.
SelectedSeq ==
    SelectSeq([i \in 1..Len(Clients) |-> i], LAMBDA i : Selected(i, usources))

\* C1: a returned cycle whose merged map is empty is a failure, whatever the
\* per-source statuses, and a cycle is a success only when every selected
\* client succeeded and at least one rate was produced.
C1_EmptyMergeIsFailure ==
    upc = "returned" =>
        /\ MergedKeys = {} => results.success = "False"
        /\ results.success = "True" => FailedFetches = <<>> /\ MergedKeys # {}

\* C2: if some selected client raised and the others' merged map is not
\* empty, the result is "partial", total_rates is the number of distinct
\* merged keys, and errors has one entry per failed client, in client order.
C2_PartialResult ==
    (upc = "returned" /\ FailedFetches # <<>> /\ MergedKeys # {}) =>
        /\ results.success = "partial"
        /\ results.total_rates = Cardinality(MergedKeys)
        /\ Len(results.errors) = Len(FailedFetches)
        /\ \A j \in DOMAIN FailedFetches :
              results.errors[j][1] = Clients[FailedFetches[j].client]
        /\ \A j, k \in DOMAIN FailedFetches :
              j < k => FailedFetches[j].client < FailedFetches[k].client

C2_Witness ==
    /\ upc = "returned"
    /\ Len(FailedFetches) = 1
    /\ Cardinality(MergedKeys) = 2
    /\ results.success = "partial"

\* C3: a cycle in which every selected client fails ends with a non-success
\* result, makes no _write_json call and leaves both files as they were.
AllSelectedFailed ==
    /\ fetched # <<>>
    /\ Len(FailedFetches) = Len(fetched)
    /\ Len(fetched) = Len(SelectedSeq)

C3_AllFailNoWrite ==
    (upc \in {"returned", "raised"} /\ AllSelectedFailed) =>
        /\ upc = "returned"
        /\ results.success = "False"
        /\ writes = 0
        /\ <<ratesFile, historyFile>> = atStart

C3_Witness ==
    /\ upc = "returned"
    /\ AllSelectedFailed
    /\ Len(fetched) = 2
    /\ atStart = UsedStore

\* C4: an exception of fetch_rates, of any kind, is recorded under the
\* client's name with status ERROR and never escapes run_update, and every
\* later selected client is still asked.
C4_SourceIsolation ==
    /\ uexc \notin {"ApiRequestError", "Exception"}
    /\ upc \notin {"idle", "loop"} =>
          [j \in DOMAIN fetched |-> fetched[j].client] = SelectedSeq
    /\ \A j \in DOMAIN fetched :
          fetched[j].kind # "ok" =>
              /\ Clients[fetched[j].client] \in DOMAIN results.sources
              /\ results.sources[Clients[fetched[j].client]].status = "ERROR"

C4_Witness ==
    /\ upc = "returned"
    /\ Len(fetched) = 2
    /\ fetched[1].kind = "Exception"
    /\ fetched[2].kind = "ok"
    /\ results.sources[CoinGecko].status = "ERROR"
    /\ results.sources[ExchangeRateAPI].status = "OK"

\* What one fetch_rates outcome does to the merged map: the keys of a
\* returned map take that map's rates, every other key keeps its rate, and
\* an outcome that raised leaves the map as it was.
MergedAfter(o) ==
    IF o.kind = "ok"
    THEN /\ DOMAIN all_rates'.at = DOMAIN all_rates.at \cup DOMAIN o.rates.at
         /\ \A k \in DOMAIN o.rates.at : all_rates'.at[k] = o.rates.at[k]
         /\ \A k \in DOMAIN all_rates.at \ DOMAIN o.rates.at :
               all_rates'.at[k] = all_rates.at[k]
    ELSE all_rates' = all_rates

\* C18: within one cycle a key returned by two successful clients carries
\* the rate of the later client in the client list, a client that raises
\* adds no key and replaces no rate, nothing but a successful fetch changes
\* the merged map, and save_rates_cache persists the merged map's rates.
C18_LastWriterWins ==
    [][/\ \A o \in FetchOutcomes : Fetch(o) => MergedAfter(o)
       /\ (upc \in {"loop", "save_cache", "save_history", "finalize"}
              /\ all_rates' # all_rates) =>
             \E o \in FetchOutcomes : o.kind = "ok" /\ Fetch(o)
       /\ (upc = "save_cache" /\ upc' = "save_history") =>
             \A k \in DOMAIN all_rates.at :
                ratesFile'.data.pairs[k].rate = all_rates.at[k]]_vars

C18_Witness ==
    /\ upc = "returned"
    /\ Len(fetched) = 2
    /\ fetched[1].kind = "ok" /\ BTC_USD \in fetched[1].keys
    /\ fetched[2].kind = "ok" /\ fetched[2].keys = {BTC_USD} /\ fetched[2].replaces
    /\ all_rates.at[BTC_USD] = MaxRate
    /\ ratesFile.data.pairs[BTC_USD] =
          [rate |-> MaxRate, updated_at |-> <<clock>>, source |-> "ParserService"]

\* The clients a non-empty filter names: those whose name, lower-cased and
\* without spaces and hyphens, equals a filter entry treated the same way.
WantedBy ==
    [sources \in SourceArgs |->
        {i \in 1..Len(Clients) :
            \E j \in DOMAIN sources.list :
                NormalizeName(Clients[i]) = NormalizeName(sources.list[j])}]
Wanted == WantedBy[usources]
\* The clients whose fetch_rates the cycle has called.
Asked == {fetched[j].client : j \in DOMAIN fetched}

\* C26: with a non-empty source filter run_update calls fetch_rates on the
\* clients the filter names and on no other, and the result's sources lists
\* exactly those; with the filter absent every client is fetched.
C26_SourceSelection ==
    /\ (usources.given /\ usources.list # <<>>) =>
          /\ Asked \subseteq Wanted
          /\ DOMAIN results.sources \subseteq {Clients[i] : i \in Wanted}
          /\ upc \notin {"idle", "loop"} =>
                /\ Asked = Wanted
                /\ DOMAIN results.sources = {Clients[i] : i \in Wanted}
    /\ (~usources.given /\ upc \notin {"idle", "loop"}) =>
          /\ Asked = 1..Len(Clients)
          /\ DOMAIN results.sources = Range(Clients)

C26_Witness ==
    /\ upc = "returned"
    /\ usources = SourceList(<<binance, Coin_Gecko>>)
    /\ Len(fetched) = 1
    /\ fetched[1].client = 1
    /\ DOMAIN results.sources = {CoinGecko}

\* The records of exchange_rates.json, none when it holds no list.
StoredRecords ==
    IF historyFile.kind = "text" /\ historyFile.upto = NChunks(historyFile.data)
       /\ historyFile.data.t = "list"
    THEN historyFile.data.items ELSE <<>>
\* The history holds a record of the pair key with the rate.
Logged(key, rate) ==
    \E i \in DOMAIN StoredRecords :
        /\ StoredRecords[i].from_currency = key[1]
        /\ StoredRecords[i].to_currency = key[2]
        /\ StoredRecords[i].rate = rate
\* The pairs of rates.json that the cycle wrote: those stored now that were
\* not stored like this when run_update was entered.
PairsOf(file) == IF IsCacheDocument(file) THEN file.data.pairs ELSE <<>>
WrittenByCycle ==
    {k \in DOMAIN PairsOf(ratesFile) :
        k \notin DOMAIN PairsOf(atStart[1])
        \/ PairsOf(ratesFile)[k] # PairsOf(atStart[1])[k]}

\* C27: once a cycle with a non-empty merged map is over, the history holds
\* for every key of the merged map a record with the pair's codes, its rate
\* and the timestamp of the cycle's save, and at no time after the cycle's
\* writes does the cache hold a pair the cycle wrote without such a record.
C27_MergedIsLogged ==
    /\ (upc = "returned" /\ DictLen(all_rates) > 0) =>
          \A k \in DOMAIN all_rates.at :
             \E i \in DOMAIN StoredRecords :
                /\ StoredRecords[i].from_currency = k[1]
                /\ StoredRecords[i].to_currency = k[2]
                /\ StoredRecords[i].rate = all_rates.at[k]
                /\ StoredRecords[i].timestamp[1] \in
                      PairsOf(ratesFile)[k].updated_at[1]..clock
    /\ upc \in {"finalize", "returned", "raised"} =>
          \A k \in WrittenByCycle : Logged(k, PairsOf(ratesFile)[k].rate)

\* ======================================================================
\* Properties of the rate cache file (SpecFile)
\* ======================================================================
\* C5: a get_rates_cache / get_rates that runs while a _write_json of
\* rates.json is under way returns what it would have returned before the
\* write began or the complete new document, never anything else.
C5_AtomicVisibility ==
    (lastRead.during # 0 /\ lastRead.during = saves) =>
        lastRead.res \in {GetRatesCache(fbefore), Returned(fdata)}

C5_Witness ==
    /\ lastRead.during = saves
    /\ saves > 0
    /\ fpc = "dump"
    /\ tmpFile.kind = "text" /\ tmpFile.upto > 0
    /\ fbefore = UsedStore[1]
    /\ fdata # fbefore.data
    /\ lastRead.res = Returned(fbefore.data)

\* C6: when a step of _write_json fails before the replace completes, the
\* exception reaches the caller, no temporary file is left and rates.json
\* holds exactly what it held before the call.
C6_FailedWriteLeavesTarget ==
    fexc \in WriteErrors =>
        /\ fpc \in {"except", "raised"}
        /\ ratesFile = fbefore
        /\ fpc = "raised" => tmpFile = Missing

C6_Witness ==
    /\ fpc = "raised"
    /\ fexc = "error in json.dump"
    /\ fbefore = UsedStore[1]
    /\ fdata # fbefore.data
    /\ tmpFile = Missing

\* C7: get_rates_cache never raises and returns the empty document whenever
\* rates.json is missing or corrupt, and a save_rates_cache on such storage
\* succeeds (its own write permitting) with exactly the saved rates as pairs.
C7_ReadNeverFails ==
    /\ ~lastRead.res.raised
    /\ lastRead.corrupt => lastRead.res = Returned(EmptyDoc)
    /\ (fpc \in {"returned", "raised"} /\ ~IsCacheDocument(fbefore)) =>
          /\ fexc \in WriteErrors \cup {""}
          /\ fpc = "returned" =>
                /\ IsCacheDocument(ratesFile)
                /\ DOMAIN ratesFile.data.pairs = DOMAIN frates.at
                /\ \A k \in DOMAIN frates.at :
                      ratesFile.data.pairs[k].rate = frates.at[k]

\* C17: after a save_rates_cache(m) with a non-empty m has returned, every
\* key of m is stored with m's rate, and every pair the cache held before
\* that is not a key of m is still stored with the same rate, updated_at and
\* source.
C17_MergeKeepsOthers ==
    (fpc = "returned" /\ DictLen(frates) > 0) =>
        LET before == GetRatesCache(fbefore).val.pairs
        IN /\ IsCacheDocument(ratesFile)
           /\ \A k \in DOMAIN frates.at :
                 /\ k \in DOMAIN ratesFile.data.pairs
                 /\ ratesFile.data.pairs[k].rate = frates.at[k]
           /\ \A k \in DOMAIN before \ DOMAIN frates.at :
                 /\ k \in DOMAIN ratesFile.data.pairs
                 /\ ratesFile.data.pairs[k] = before[k]

C17_Witness ==
    /\ fpc = "returned"
    /\ fbefore = UsedStore[1]
    /\ DOMAIN frates.at = {EUR_USD}
    /\ clock > 0
    /\ ratesFile.data.pairs[EUR_USD].rate = frates.at[EUR_USD]
    /\ ratesFile.data.pairs[EUR_USD].updated_at = <<clock>>
    /\ ratesFile.data.pairs[BTC_USD] =
          [rate |-> 1, updated_at |-> <<0>>, source |-> "ParserService"]

RECURSIVE IsSubsequence(_, _)
IsSubsequence(a, b) ==
    IF a = <<>> THEN TRUE
    ELSE IF b = <<>> THEN FALSE
    ELSE IF Head(a) = Head(b) THEN IsSubsequence(Tail(a), Tail(b))
    ELSE IsSubsequence(a, Tail(b))

\* The latest call was a clear_old_history.
Cleared == "cutoff" \in DOMAIN hcall

\* C28: an add_history_record call leaves the stored records as they were,
\* in their order, with at most the new record after them; a
\* clear_old_history call leaves the stored records in their order with
\* some left out, and every record left out has a timestamp older than the
\* cutoff.
C28_AppendOnlyInOrder ==
    /\ hcall.made =>
          \/ StoredHistory = hcall.before
          \/ StoredHistory = Append(hcall.before, hcall.record)
    /\ Cleared =>
          /\ IsSubsequence(StoredHistory, hcall.before)
          /\ \A i \in DOMAIN hcall.before :
                hcall.before[i].timestamp[1] >= hcall.cutoff =>
                    Len(SelectSeq(StoredHistory, LAMBDA r : r = hcall.before[i]))
                       = Len(SelectSeq(hcall.before, LAMBDA r : r = hcall.before[i]))

C28_Witness ==
    /\ Cleared
    /\ hcall.cutoff = 1
    /\ Len(hcall.before) = 3
    /\ hcall.before[1].timestamp = <<1>>
    /\ hcall.before[2].timestamp = <<0>>
    /\ hcall.before[3].timestamp = <<1>>
    /\ hcall.before[1] # hcall.before[3]
    /\ StoredHistory = <<hcall.before[1], hcall.before[3]>>

\* ======================================================================
\* Properties of overlapping update cycles (SpecCallers)
\* ======================================================================
\* last_refresh of the document in rates.json; None when there is none.
LastRefresh == GetRatesCache(ratesFile).val.last_refresh

\* Timestamp a is not earlier than timestamp b.
NotEarlier(a, b) == b = None \/ (a # None /\ a[1] >= b[1])

\* C8: last_refresh never decreases: no step, of the timer's cycle or of a
\* concurrent trigger_update, installs a document whose last_refresh is
\* earlier than that of the document it replaces.
C8_RefreshNeverDecreases == [][NotEarlier(LastRefresh', LastRefresh)]_vars

\* The pair keys of the document in rates.json.
StoredKeys == DOMAIN GetRatesCache(ratesFile).val.pairs

\* No caller is about to write a merge into a cache that is no longer the one
\* in the file.
NoStaleCache ==
    \A c \in Callers :
        cycle[c].pc = "write" => cycle[c].cache = GetRatesCache(ratesFile).val

\* C36: no update is lost to an overlapping cycle: a write of one cycle
\* removes no pair key from the cache, so the cache keeps every key that was
\* in it and every key a cycle merged, however the cycles interleave.
C36_NoKeyLost == [][StoredKeys \subseteq StoredKeys']_vars

\* The same of the writes that merge into the cache the file holds.
C36_NoKeyLostUnraced == [][NoStaleCache => StoredKeys \subseteq StoredKeys']_vars

\* The document in rates.json.
StoredDoc == GetRatesCache(ratesFile).val

\* No pair of the document is stamped later than the document itself.
StampsWithinRefresh ==
    \A k \in StoredKeys : NotEarlier(StoredDoc.last_refresh, StoredDoc.pairs[k].updated_at)

\* Caller c's save_rates_cache installs its document.
Installs(c) == cycle[c].pc = "write" /\ cycle'[c].pc = "history"

\* The pairs of the merge just installed carry the document's last_refresh,
\* and the document's source is the writer's label.
LatestMergeStamped ==
    \A c \in Callers :
        Installs(c) =>
            /\ \A k \in DOMAIN cycle[c].rates.at :
                  StoredDoc'.pairs[k].updated_at = StoredDoc'.last_refresh
            /\ StoredDoc'.source = "ParserService"
            /\ StoredDoc'.last_refresh = cycle[c].current_time

\* C37: in every cache document that a sequence or an interleaving of
\* save_rates_cache calls produces under a clock that does not run backwards,
\* each pair's updated_at is at most last_refresh, the pairs of the latest
\* merge have updated_at equal to last_refresh, and source is the label of
\* the latest writer.
C37_StampsConsistent == []StampsWithinRefresh /\ [][LatestMergeStamped]_vars

\* The part of C37 about the latest merge alone.
C37_LatestMergeStamped == [][LatestMergeStamped]_vars

\* The first part of C37 for the calls of one caller, one after the other.
C37_StampsInSequence ==
    (fpc \in {"idle", "returned", "raised"} /\ IsCacheDocument(ratesFile)) => StampsWithinRefresh

\* ======================================================================
\* Properties of RatesScheduler (SpecScheduler)
\* ======================================================================
\* The threads of the scheduler inside _do_update.
Updating == {t \in ThreadIds : loops[t] \in {"updating", "caught"}}

\* C10: at most one scheduled update cycle is executing at any time.
C10_OneScheduledCycle == Cardinality(Updating) <= 1

\* C11: a loop thread whose cycle was in flight when stop() was called
\* starts no further cycle: once that cycle completes the thread is at the
\* loop condition or has left the loop; it never waits or updates again.
C11_StopEndsLoop ==
    \A t \in inflightAtStop : loops[t] \in {"updating", "caught", "while", "dead"}

\* C19: every result of a cycle of the scheduler, timer-driven or started
\* through trigger_update, has been handed to the registered callback once,
\* in order.
C19_CallbackPerCycle ==
    on_update => delivered = [i \in 1..ran |-> i]

\* C20: after an assignment to interval, the value stored is 60 when the
\* value assigned is below 60, and the value assigned otherwise.
C20_IntervalClamp ==
    assigned # None =>
        interval = IF assigned[1] < 60 THEN 60 ELSE assigned[1]

\* C38: the interval of the scheduler is at least 60 seconds in every
\* reachable state, whether it was given to the constructor, assigned through
\* the setter or set by start_scheduler.
C38_IntervalFloor == interval >= MinInterval

C20_Witness ==
    assigned = <<59>> /\ interval = 60 /\ running /\ \E t \in ThreadIds : loops[t] = "wait"

\* Thread t moves from one position of _run_loop to another.
Moves(t, from, to) == loops[t] = from /\ loops'[t] = to
Leaves(t, from) == loops[t] = from /\ loops'[t] # from
Enters(t, to) == loops[t] # to /\ loops'[t] = to

\* C29: a thread started by start() runs one cycle at once, before any
\* wait; a later cycle begins only after a wait that timed out with the
\* stop event clear, and such a timeout with _running still set is followed
\* by one cycle and then the loop condition and the next wait; a wait that
\* finds the stop event set ends the loop without a cycle.
C29_ImmediateThenPerTimeout ==
    [][\A t \in ThreadIds :
          /\ Leaves(t, "unborn") => (loops'[t] = "first" /\ running /\ ~stop_event)
          /\ Leaves(t, "first") => loops'[t] = "updating"
          /\ Enters(t, "updating") => loops[t] \in {"first", "update"}
          /\ Enters(t, "update") => (loops[t] = "if" /\ running)
          /\ Enters(t, "if") => (loops[t] = "wait" /\ ~stop_event)
          /\ Enters(t, "wait") => (loops[t] = "while" /\ running)
          /\ (Leaves(t, "if") /\ running) => loops'[t] = "update"
          /\ (Leaves(t, "wait") /\ ~stop_event) => loops'[t] = "if"
          /\ (Leaves(t, "wait") /\ stop_event) => loops'[t] = "dead"]_vars

C29_Witness ==
    /\ on_update /\ delivered = <<1>> /\ ran = 1
    /\ running /\ ~stop_event /\ thread = 1
    /\ loops[1] = "update"
    /\ inflightAtStop = {}

\* C30: an exception the callback raises during a scheduled cycle is caught
\* in _do_update: the thread goes on to the loop condition, _running and
\* the stop event are as they were, and with _running set the thread waits
\* for the next timeout.
C30_CallbackFailureContained ==
    [][\A t \in ThreadIds :
          /\ (loops[t] = "updating" /\ loops'[t] \notin {"updating", "while"}) =>
                loops'[t] = "caught"
          /\ Leaves(t, "caught") =>
                /\ loops'[t] = "while"
                /\ running' = running /\ stop_event' = stop_event
          /\ (Leaves(t, "while") /\ running) => loops'[t] = "wait"]_vars

C30_Witness ==
    /\ on_update /\ delivered = <<1, 2>>
    /\ running /\ ~stop_event /\ thread = 1
    /\ loops[1] = "caught"
    /\ inflightAtStop = {}

\* A step in which run_update returns a result and no loop thread moves: the
\* cycle ran in the caller of trigger_update.
TriggerReturns == ran' = ran + 1 /\ loops' = loops

\* C31: a trigger_update that returns the result of its cycle, with the
\* scheduler stopped or running, leaves _running, the stop event, the loop
\* thread and its position, and the interval as they were.
C31_TriggerLeavesSchedule ==
    [][TriggerReturns =>
          /\ running' = running
          /\ stop_event' = stop_event
          /\ thread' = thread
          /\ interval' = interval
          /\ mpc' = mpc]_vars

\* The loop thread delivered the result of cycle 1 and waits for its next
\* timeout; cycle 2 ran in trigger_update while the scheduler was running.
C31_Witness ==
    /\ on_update /\ ran = 2 /\ delivered = <<1>>
    /\ running /\ ~stop_event /\ thread = 1
    /\ loops[1] = "wait"
    /\ interval = DefaultInterval

\* ======================================================================
\* Properties of RatesService.get_rate (SpecResolver)
\* ======================================================================
\* The arguments that name a currency of the registry, and the code each
\* names.
RegisteredArgs ==
    {arg \in CodeArgs \cup OrderArgs : \E e \in CurrencyRegistry : e.chars = Strip(Upper(arg))}
CodeOfArg ==
    [arg \in RegisteredArgs |->
        (CHOOSE e \in CurrencyRegistry : e.chars = Strip(Upper(arg))).code]
Registered(arg) == arg \in RegisteredArgs
CodeOf(arg) == CodeOfArg[arg]

\* A call with two registered arguments has been made.
CalledRegistered ==
    grcall.made /\ Registered(grcall.from_arg) /\ Registered(grcall.to_arg)
From == CodeOf(grcall.from_arg)
To == CodeOf(grcall.to_arg)

\* The call failed with the rate-unavailable error.
RateUnavailable ==
    grcall.out.res.raised /\ grcall.out.res.exc = "ApiRequestError"

\* rates.json holds a cache document; its pairs.
HoldsDocument ==
    /\ ratesFile.kind = "text"
    /\ ratesFile.upto = NChunks(ratesFile.data)
    /\ ratesFile.data.t = "dict"
CachedPairs == ratesFile.data.pairs
\* The cache holds key as a RatePair record.
Cached(key) == key \in DOMAIN CachedPairs /\ IsDict(CachedPairs[key])

\* C12: get_rate(a, a) for a registered code a returns rate 1.0 and fresh =
\* true and makes no get_rates call, whatever rates.json holds.
C12_Identity ==
    (CalledRegistered /\ From = To) =>
        /\ grcall.out.reads = 0
        /\ ~grcall.out.res.raised
        /\ grcall.out.res.val.rate = [n |-> 1, d |-> 1]
        /\ grcall.out.res.val.fresh

C12_Witness ==
    /\ CalledRegistered
    /\ grcall.from_arg = <<"u","s","d">>
    /\ grcall.to_arg = <<"U","S","D">>
    /\ ratesFile = BadBytes
    /\ ~grcall.out.res.raised
    /\ grcall.out.res.val.fresh

\* The legs of a triangulation of the call are cached with non-zero rates.
LegsCached ==
    /\ From # "USD" /\ To # "USD"
    /\ <<From, "USD">> \in DOMAIN CachedPairs
    /\ <<To, "USD">> \in DOMAIN CachedPairs
    /\ RateOf(CachedPairs[<<From, "USD">>]) # 0
    /\ RateOf(CachedPairs[<<To, "USD">>]) # 0

\* The call's reverse pair is cached as a record and its direct pair is not
\* cached.
OnlyReverse ==
    /\ CalledRegistered /\ From # To /\ HoldsDocument
    /\ <<From, To>> \notin DOMAIN CachedPairs
    /\ Cached(<<To, From>>)
ReversePair == CachedPairs[<<To, From>>]

\* The inversion part of C13: with TO_FROM = r cached, r non-zero, and
\* FROM_TO not cached, get_rate returns 1/r, reverse_rate r and the reverse
\* pair's updated_at and source.
Inverted ==
    (OnlyReverse /\ ReversePair.rate # 0) =>
        /\ ~grcall.out.res.raised
        /\ grcall.out.res.val.rate = Frac(1, ReversePair.rate)
        /\ grcall.out.res.val.reverse_rate = <<Frac(ReversePair.rate, 1)>>
        /\ grcall.out.res.val.updated_at = ReversePair.updated_at
        /\ grcall.out.res.val.source = ReversePair.source

\* C13 as claimed: inversion as above, and with r = 0 get_rate fails with
\* the rate-unavailable error.
C13_InversionOrFailure ==
    /\ Inverted
    /\ (OnlyReverse /\ ReversePair.rate = 0) =>
          RateUnavailable

\* C13 amended: inversion as above; with r = 0 the inversion is not
\* attempted and no division by zero happens: get_rate returns the
\* triangulated rate when both legs are cached with non-zero rates and
\* neither code is the pivot, and fails with the rate-unavailable error
\* otherwise.
C13_InversionOrFallThrough ==
    /\ Inverted
    /\ (OnlyReverse /\ ReversePair.rate = 0) =>
          IF LegsCached
          THEN /\ ~grcall.out.res.raised
               /\ grcall.out.res.val.source = "calculated"
               /\ grcall.out.res.val.rate =
                     Frac(RateOf(CachedPairs[<<From, "USD">>]),
                          RateOf(CachedPairs[<<To, "USD">>]))
          ELSE RateUnavailable

C13_Witness ==
    /\ OnlyReverse
    /\ From = "USD" /\ To = "EUR"
    /\ ReversePair.rate = 2
    /\ ReversePair.updated_at = <<0>>
    /\ ~grcall.out.res.raised
    /\ grcall.out.res.val.rate = [n |-> 1, d |-> 2]
    /\ grcall.out.res.val.source = "ExchangeRate-API"

\* The cache holds exactly the two legs of the call's triangulation.
OnlyLegs ==
    /\ CalledRegistered /\ From # To /\ HoldsDocument
    /\ From # "USD" /\ To # "USD"
    /\ DOMAIN CachedPairs = {<<From, "USD">>, <<To, "USD">>}
LegX == RateOf(CachedPairs[<<From, "USD">>])
LegY == RateOf(CachedPairs[<<To, "USD">>])

\* C14 as claimed: with only FROM_USD = x and TO_USD = y cached, y non-zero,
\* get_rate(FROM, TO) returns x / y.
C14_Triangulation ==
    (OnlyLegs /\ LegY # 0) =>
        /\ ~grcall.out.res.raised
        /\ grcall.out.res.val.rate = Frac(LegX, LegY)

\* C14 amended: with only FROM_USD = x and TO_USD = y cached, x and y both
\* non-zero, get_rate(FROM, TO) returns x / y; with x = 0 it fails with the
\* rate-unavailable error.
C14_TriangulationNonZero ==
    /\ (OnlyLegs /\ LegY # 0 /\ LegX # 0) =>
          /\ ~grcall.out.res.raised
          /\ grcall.out.res.val.rate = Frac(LegX, LegY)
    /\ (OnlyLegs /\ LegY # 0 /\ LegX = 0) =>
          RateUnavailable

C14_Witness ==
    /\ OnlyLegs
    /\ From = "BTC" /\ To = "EUR"
    /\ LegX = 1 /\ LegY = 2
    /\ ~grcall.out.res.raised
    /\ grcall.out.res.val.rate = [n |-> 1, d |-> 2]

\* The call returned a rate resolved from the direct or the reverse pair.
ResolvedFromPair ==
    /\ CalledRegistered /\ From # To
    /\ ~grcall.out.res.raised
    /\ grcall.out.res.val.source # "calculated"

\* C15: a rate resolved directly or by inversion is reported fresh exactly
\* when its updated_at parses and now - updated_at < TTL, the TTL being the
\* rates_ttl_seconds setting, 300 when it is absent; without an updated_at
\* the rate is stale.
C15_Freshness ==
    ResolvedFromPair =>
        LET updated_at == grcall.out.res.val.updated_at
            ttl == IF grcall.setting = None THEN 300 ELSE grcall.setting[1]
        IN grcall.out.res.val.fresh <=>
              (Len(updated_at) = 1 /\ grcall.now - updated_at[1] < ttl)

C15_Witness ==
    /\ ResolvedFromPair
    /\ grcall.setting = None
    /\ grcall.now = 301
    /\ grcall.out.res.val.updated_at = <<0>>
    /\ ~grcall.out.res.val.fresh
    /\ From = "USD" /\ To = "BTC"

\* C16: a call with a code outside the registry fails with the validation
\* or unknown-currency error and makes no get_rates call, whatever
\* rates.json holds, also when both arguments are the same code.
C16_UnknownCodeFailsFirst ==
    (grcall.made /\ ~(Registered(grcall.from_arg) /\ Registered(grcall.to_arg))) =>
        /\ grcall.out.res.raised
        /\ grcall.out.res.exc \in {"ValidationError", "CurrencyNotFoundError"}
        /\ grcall.out.reads = 0

C16_Witness ==
    /\ grcall.made
    /\ grcall.from_arg = <<"X","X","X">>
    /\ grcall.to_arg = <<"X","X","X">>
    /\ HoldsDocument
    /\ grcall.out.res = Raised("CurrencyNotFoundError")
    /\ grcall.out.reads = 0

\* The pairs get_rate can look at: those of the document, none when
\* rates.json holds no document.
ReadablePairs == IF HoldsDocument THEN CachedPairs ELSE <<>>
Has(key) == key \in DOMAIN ReadablePairs

\* Neither the direct pair, nor an invertible reverse pair, nor a complete
\* triangulation exists for the call.
NothingResolves ==
    /\ CalledRegistered /\ From # To
    /\ ~Has(<<From, To>>)
    /\ ~Has(<<To, From>>) \/ RateOf(ReadablePairs[<<To, From>>]) = 0
    /\ \/ From = "USD" \/ To = "USD"
       \/ ~Has(<<From, "USD">>) \/ ~Has(<<To, "USD">>)
       \/ RateOf(ReadablePairs[<<To, "USD">>]) = 0

\* C23: when no direct pair, no invertible reverse pair and no complete
\* triangulation exist, get_rate fails with the rate-unavailable error, whose
\* message names both requested codes, and returns no rate.
C23_UnavailableNamesBoth ==
    NothingResolves =>
        /\ RateUnavailable
        /\ {From, To} \subseteq Range(grcall.out.res.msg)

\* The call returned a rate computed by calculate_rate.
Calculated ==
    /\ CalledRegistered /\ From # To
    /\ ~grcall.out.res.raised
    /\ grcall.out.res.val.source = "calculated"

\* C24: a rate resolved by triangulation is reported fresh whatever the
\* ages of its legs and of last_refresh.
C24_TriangulatedAlwaysFresh == Calculated => grcall.out.res.val.fresh

C24_Witness ==
    /\ Calculated
    /\ From = "BTC" /\ To = "EUR"
    /\ grcall.setting = None /\ grcall.now = 301
    /\ IsDict(CachedPairs[BTC_USD]) /\ CachedPairs[BTC_USD].updated_at = <<0>>
    /\ IsDict(CachedPairs[EUR_USD]) /\ CachedPairs[EUR_USD].updated_at = <<0>>
    /\ ratesFile.data.last_refresh = <<0>>
    /\ grcall.out.res.val.fresh

\* ======================================================================
\* Properties of the resolution order (SpecOrder)
\* ======================================================================
\* The call's direct pair is cached along with its reverse pair.
DirectAndReverse ==
    /\ CalledRegistered /\ From # To
    /\ Has(<<From, To>>) /\ Has(<<To, From>>)

\* C22: get_rate tries the direct pair, then the reverse pair, then
\* triangulation: a cached FROM_TO is returned whatever else is cached, and
\* with FROM_TO not cached a cached non-zero TO_FROM is inverted whether or
\* not both pivot legs are cached.
C22_ResolutionOrder ==
    /\ (CalledRegistered /\ From # To /\ Has(<<From, To>>)) =>
          /\ ~grcall.out.res.raised
          /\ grcall.out.res.val.rate = Frac(CachedPairs[<<From, To>>].rate, 1)
          /\ grcall.out.res.val.source = SourceOf(<<From, To>>)
    /\ (OnlyReverse /\ ReversePair.rate # 0) =>
          /\ ~grcall.out.res.raised
          /\ grcall.out.res.val.rate = Frac(1, ReversePair.rate)
          /\ grcall.out.res.val.source = SourceOf(<<To, From>>)

C22_Witness ==
    /\ DirectAndReverse /\ LegsCached
    /\ From = "BTC" /\ To = "EUR"
    /\ CachedPairs[BTC_EUR].rate = 2
    /\ CachedPairs[EUR_BTC].rate = 1
    /\ CachedPairs[BTC_USD].rate = 1 /\ CachedPairs[EUR_USD].rate = 1
    /\ grcall.out.res.val.rate = [n |-> 2, d |-> 1]
    /\ grcall.out.res.val.source = "CoinGecko"

\* C25: triangulation goes through the configured default_base_currency P:
\* with FROM and TO both different from P, neither FROM_TO nor TO_FROM
\* cached and FROM_P, TO_P cached with non-zero rates, get_rate returns
\* FROM_P / TO_P; with FROM or TO equal to P no rate is triangulated.
C25_ConfiguredPivot ==
    LET P == grcall.base
    IN /\ (/\ CalledRegistered /\ From # To /\ From # P /\ To # P
           /\ ~Has(<<From, To>>) /\ ~Has(<<To, From>>)
           /\ Has(<<From, P>>) /\ Has(<<To, P>>)
           /\ CachedPairs[<<From, P>>].rate # 0
           /\ CachedPairs[<<To, P>>].rate # 0) =>
             /\ ~grcall.out.res.raised
             /\ grcall.out.res.val.source = "calculated"
             /\ grcall.out.res.val.rate =
                   Frac(CachedPairs[<<From, P>>].rate, CachedPairs[<<To, P>>].rate)
       /\ (CalledRegistered /\ From # To /\ (From = P \/ To = P)) =>
             ~Calculated

\* ======================================================================
\* Properties of the cache document round trip (SpecRoundTrip)
\* ======================================================================
\* d[key] of a dict that has the key, and the keys of a dict.
ItemOf(d, key) == d.items[CHOOSE j \in DOMAIN d.items : d.items[j][1] = key][2]
KeysOf(d) == {d.items[j][1] : j \in DOMAIN d.items}
PairsIn(doc) == ItemOf(doc, JStr(Chars_pairs))

\* Python's == on the values of an entry: nan equals nothing, an int equals
\* the float of the same value.
PyEq(a, b) ==
    LET num(v) == IF v.py = "int" THEN Shortest(v.n, 0) ELSE v
    IN /\ a.py # "nan" /\ b.py # "nan"
       /\ num(a) = num(b)

\* The pairs of a document are well formed: every key is a str, every
\* entry has a float rate above 0 and str updated_at and source.
WellFormedPairs(doc) ==
    \A j \in DOMAIN PairsIn(doc).items :
       LET key == PairsIn(doc).items[j][1]
           entry == PairsIn(doc).items[j][2]
       IN /\ key.py = "str"
          /\ ItemOf(entry, JStr(Chars_rate)).py = "float"
          /\ ItemOf(entry, JStr(Chars_rate)).m > 0
          /\ ItemOf(entry, JStr(Chars_updated_at)).py = "str"
          /\ ItemOf(entry, JStr(Chars_source)).py = "str"

\* Two documents have the same pair keys and, under each key, equal rate,
\* updated_at and source.
EntryFields == {JStr(Chars_rate), JStr(Chars_updated_at), JStr(Chars_source)}
SamePairs(a, b) ==
    /\ PairsIn(b).py = "dict"
    /\ KeysOf(PairsIn(a)) = KeysOf(PairsIn(b))
    /\ \A key \in KeysOf(PairsIn(a)) :
          /\ ItemOf(PairsIn(b), key).py = "dict"
          /\ EntryFields \subseteq KeysOf(ItemOf(PairsIn(b), key))
          /\ \A f \in EntryFields :
                PyEq(ItemOf(ItemOf(PairsIn(a), key), f), ItemOf(ItemOf(PairsIn(b), key), f))

\* A save_rates call returned and get_rates has read the file since.
WrittenAndRead == rtrip.pc = "saved" /\ rtrip.raised = "" /\ rtrip.read # None

\* C21: a cache document with well-formed pairs that save_rates wrote and
\* get_rates read back has the same pair keys and, under each key, the same
\* rate, updated_at and source as the document written.
C21_RoundTrip ==
    (WrittenAndRead /\ WellFormedPairs(rtrip.rates)) =>
        SamePairs(rtrip.rates, rtrip.read[1])

\* Two well-formed pairs, one with a rate printed in exponent form and a
\* label with characters json escapes, written and read back.
C21_Witness ==
    /\ WrittenAndRead
    /\ WellFormedPairs(rtrip.rates)
    /\ KeysOf(PairsIn(rtrip.rates)) = {JStr(Key_B_U), JStr(Key_E_U)}
    /\ ItemOf(PairsIn(rtrip.rates), JStr(Key_B_U)) =
          PairEntry(JFloat(25, -8), JStr(StampChars), JStr(<<"a", "\"", "\\", "b">>))
    /\ rtrip.read[1] = rtrip.rates

\* ======================================================================
\* Properties of stop() during a scheduled cycle (SpecStop)
\* ======================================================================
\* The loop thread is inside run_update, which has neither returned nor
\* raised.
MidCycle ==
    /\ thread # 0 /\ loops[thread] = "updating" /\ cycles = 1
    /\ upc \notin {"idle", "returned", "raised"}

\* rates.json holds every pair of the merged map with its rate, and the
\* history a record of each.
CycleWritesDone ==
    /\ IsCacheDocument(ratesFile)
    /\ \A k \in DOMAIN all_rates.at :
          /\ k \in DOMAIN PairsOf(ratesFile)
          /\ PairsOf(ratesFile)[k].rate = all_rates.at[k]
          /\ Logged(k, all_rates.at[k])

\* A step of stop().
StopSteps == mpc' # mpc /\ (mpc \in {"set", "alive", "join"} \/ mpc' = "set")

\* C32: stop() touches only _running and the stop event and returns from
\* join whether or not the thread has ended; the run_update that was in
\* flight can take its next step in every state, whatever stop() has done,
\* and when it returns after the stop with a non-empty merged map the cache
\* and the history hold what it merged.
C32_CooperativeStop ==
    /\ [](MidCycle => ENABLED CycleStep)
    /\ []((inflightAtStop # {} /\ upc = "returned" /\ DictLen(all_rates) > 0) =>
            CycleWritesDone)
    /\ [][StopSteps =>
            /\ loops' = loops
            /\ UNCHANGED <<uvars, svars>>
            /\ (mpc = "join" => mpc' = "idle")]_vars

\* stop() has returned on the timeout of join while the cycle was inside
\* run_update; the cycle has gone on to write both files and return.
C32_Witness ==
    /\ ~running /\ stop_event /\ mpc = "idle"
    /\ inflightAtStop = {1}
    /\ loops[1] = "updating"
    /\ upc = "returned" /\ writes > 0
    /\ DOMAIN all_rates.at = PairKeys
    /\ CycleWritesDone

\* ======================================================================
\* Properties of the source clients (SpecClients)
\* ======================================================================
\* The call reached _parse_response of ExchangeRateApiClient: status 200 and
\* a body that reports success.
FiatParsed ==
    /\ fcall.made /\ fcall.client = "ExchangeRate-API"
    /\ fcall.env.requests /\ fcall.env.key
    /\ fcall.resp.kind = "response" /\ fcall.resp.status = 200
    /\ fcall.resp.body.json /\ fcall.resp.body.data.t = "dict"
    /\ GetOr(fcall.resp.body.data, "result", PyNone) = Str("success")
\* The provider's rates of that body.
ApiRates ==
    GetOr(fcall.resp.body.data, "conversion_rates",
          GetOr(fcall.resp.body.data, "rates", Obj(<<>>)))
\* The payload gives a number for every tracked code it names.
NumericPayload ==
    /\ ApiRates.t = "dict"
    /\ \A c \in Range(FIAT_CURRENCIES) :
          HasKey(ApiRates, c) => ValueAt(ApiRates, c).t = "num"
\* The tracked codes other than the base that the payload gives a non-zero
\* value.
Quoted ==
    {c \in Range(FIAT_CURRENCIES) :
        c # fcall.env.base /\ HasKey(ApiRates, c) /\ ValueAt(ApiRates, c).n # 0}

\* C33: from a payload of numbers the foreign-exchange client returns the
\* pair C_BASE with rate 1 / v for every tracked code C other than the base
\* that the payload gives a non-zero v, and no other pair.
C33_FiatInverted ==
    (FiatParsed /\ NumericPayload) =>
        /\ ~fcall.out.raised
        /\ DOMAIN fcall.out.val = {<<c, fcall.env.base>> : c \in Quoted}
        /\ \A c \in Quoted :
              fcall.out.val[<<c, fcall.env.base>>] = Frac(1, ValueAt(ApiRates, c).n)

\* EUR at 2, GBP at 0, the base and an untracked code: EUR_USD = 1/2 alone.
C33_Witness ==
    /\ FiatParsed /\ NumericPayload
    /\ fcall.env.base = "USD"
    /\ ApiRates = Obj(<<<<"EUR", Num(2)>>, <<"GBP", Num(0)>>, <<"USD", Num(1)>>,
                        <<"XXX", Num(1)>>>>)
    /\ fcall.out = Returned(<<"EUR", "USD">> :> Frac(1, 2))

\* C34 as claimed: a fetch_rates call that fails raises ApiRequestError and
\* nothing else, and the reason given for status 429 is not the reason given
\* for another status that is not 200.
C34_UniformSourceError ==
    fcall.made =>
        /\ fcall.out.raised => fcall.out.exc = "ApiRequestError"
        /\ (fcall.env.requests /\ fcall.resp.kind = "response"
            /\ fcall.resp.status = 429 /\ fcall.out.raised) =>
              fcall.out.msg # ApiRequestError(<<fcall.client, " returned status ", 429>>).msg


\* ------------------------------------------------ properties of SpecCommand
Printed == console # None

\* The lines printed for the sources that failed in the cycle.
ErrorLines == SelectSeq(console, LAMBDA l : l[1] = "ERROR: Failed to fetch from ")

\* C35: update-rates reports a partial cycle apart from a full success: for
\* a result whose success is "partial" it prints the error of each failed
\* source and the completed-with-errors status, and it prints the successful
\* status only when success is true.
C35_PartialReportedDistinctly ==
    Printed =>
        /\ results.success = "partial" =>
              /\ Len(ErrorLines) = Len(results.errors)
              /\ \A j \in DOMAIN ErrorLines :
                    SubSeq(ErrorLines[j], 2, Len(ErrorLines[j])) =
                        <<results.errors[j][1], ": ">> \o Tail(results.errors[j])
              /\ console[Len(console)] = CompletedWithErrors
        /\ console[Len(console)][1] = UpdateSuccessful(0)[1] => results.success = "True"

\* The part of C35 that the command does as stated: each failed source of a
\* partial cycle has its error line.
C35_ErrorsItemized ==
    (Printed /\ results.success = "partial") =>
        /\ Len(ErrorLines) = Len(results.errors)
        /\ Len(ErrorLines) > 0


\* ------------------------------------------------ a failed scheduled cycle
\* The run_update of thread t's cycle ends with an exception.
CycleFails(t) == Leaves(t, "updating") /\ upc = "raised"

\* C39: an exception that escapes the run_update of a scheduled cycle, such
\* as a failed write of the cache or of the history, is caught in the cycle:
\* the thread goes on to the loop condition, the callback gets nothing for
\* that cycle, _running and the stop event are as they were, and with
\* _running set the thread waits and starts a cycle at the next timeout.
C39_FailedCycleContained ==
    [][\A t \in ThreadIds :
          /\ CycleFails(t) =>
                /\ loops'[t] = "while"
                /\ delivered' = delivered /\ ran' = ran
                /\ running' = running /\ stop_event' = stop_event
                /\ thread' = thread
          /\ (Leaves(t, "while") /\ running) => loops'[t] = "wait"
          /\ (Leaves(t, "wait") /\ ~stop_event) => loops'[t] = "if"
          /\ (Leaves(t, "if") /\ running) => loops'[t] = "update"]_vars

C39_Witness ==
    /\ upc = "raised" /\ uexc # "" /\ writes > 0
    /\ on_update /\ delivered = <<>> /\ ran = 0
    /\ running /\ ~stop_event /\ thread = 1
    /\ loops[1] = "update"


\* ------------------------------------------------- properties of SpecWallet
\* balance >= 0
NonNegative(balance) == FLessEq(Fin(0), balance)

\* The latest call raised.
Rejected == wallet'.last.op # "none" /\ wallet'.last.raised

\* A withdraw of more than the balance, and a deposit or withdraw of an
\* amount that is not positive, raise; a call that raises leaves the balance
\* as it was, and a failed sell leaves the stored portfolio as it was.
RejectionsKeepBalance ==
    /\ \A amount \in Amounts :
          /\ (amount.k # "str" /\ FLessEq(amount, Fin(0))) =>
                /\ DepositResult(wallet.balance, amount) = Raised("ValidationError")
                /\ WithdrawResult(wallet.balance, amount) = Raised("ValidationError")
          /\ (amount.k # "str" /\ FLess(wallet.balance, amount)) =>
                WithdrawResult(wallet.balance, amount).raised
          /\ (wallet.stored # None /\ amount.k # "str" /\ FLess(wallet.stored[1], amount)) =>
                SellResult(wallet.stored, amount).raised
    /\ Rejected => (wallet'.balance = wallet.balance /\ wallet'.stored = wallet.stored)

\* C40: the balance of a wallet is non-negative after any sequence of deposit
\* and withdraw calls; a withdraw of more than the balance and a deposit or
\* withdraw of a non-positive amount raise and leave the balance unchanged;
\* a sell that fails for insufficient funds leaves the stored portfolio
\* unchanged.
C40_BalanceNeverNegative ==
    /\ [](NonNegative(wallet.balance))
    /\ [][RejectionsKeepBalance]_vars

\* The parts of C40 about the calls that raise.
C40_RejectionsKeepBalance == [][RejectionsKeepBalance]_vars

\* The first part of C40 for amounts that are finite numbers.
C40_NonNegativeForFiniteAmounts ==
    [][(wallet'.last.op \in {"deposit", "withdraw"} /\ wallet'.last.amount.k = "fin"
        /\ NonNegative(wallet.balance)) => NonNegative(wallet'.balance)]_vars

====
